---- MODULE Spec2Model ----
(***************************************************************************)
(* A model of the train-delay analysis pipeline: the record cleaner        *)
(* (src/src/data_processing/cleaner.py), the statistical analyzer          *)
(* (src/src/analysis/statistical_model.py) and the places of               *)
(* src/src/main.py that call them.                                         *)
(*                                                                         *)
(* A pandas DataFrame is a record [cols, dtype, rows]: the set of column   *)
(* names, the dtype of every column and the sequence of rows, each row a   *)
(* function from the column names to cells.  A cell is a record            *)
(* [tag, n, txt]: a null (None/NaN/NaT), a number, a text or a timestamp   *)
(* (minutes since 1970-01-01 00:00).                                       *)
(***************************************************************************)
EXTENDS Integers, Sequences, FiniteSets, TLC

VARIABLES
    train_df_raw,     \* main.py:90   the raw delay table the caller keeps
    weather_df_raw,   \* main.py:98   the raw weather table the caller keeps
    train_df,         \* main.py:102  the copy handed to clean_train_delays (mutated in place)
    weather_df,       \* main.py:103  the copy handed to clean_weather_data (mutated in place)
    merged_df,        \* main.py:105  the result of merge_data
    how,              \* cleaner.py:88 the join kind of the last merge_data call
    result,           \* the value returned by the last analysis call
    files,            \* the output files written so far
    df_stations,      \* main.py:174 the station table handed to create_gdf_from_points
    gdf_stations,     \* main.py:174 the point set create_gdf_from_points returned
    gdf_polygons,     \* spatial_processor.py:64 the polygon set of spatial_join_data
    api_key,          \* main.py:15   WEATHER_API_KEY
    current_date,     \* main.py:50   the date of the acquisition loop, in days after start_date
    requests,         \* main.py:68   the dates fetch_weather_data was called for, in call order
                      \* (weather_api.py:34, scraper.py:19  in SpecIngest the URLs of the GETs)
    charts,           \* the titles of the charts shown so far, in order
    page,             \* app.py:228  the page chosen in the sidebar of the dashboard
    log,              \* the messages printed so far, in order
    raised,           \* the exception that escaped the last call ("none" when it returned)
    pc                \* the position of the caller

\* the tables of the GIS output
geo == <<df_stations, gdf_stations, gdf_polygons>>

\* the state of the acquisition loop and the charts of a run
run == <<api_key, current_date, requests, charts, page>>

vars == <<train_df_raw, weather_df_raw, train_df, weather_df, merged_df, how,
          result, files, df_stations, gdf_stations, gdf_polygons,
          api_key, current_date, requests, charts, page, log, raised, pc>>

---------------------------------------------------------------------------
(* Bounds of the model *)

\* longest raw delay table of SpecTrain
MaxTrainRows == 3
\* longest raw weather table of SpecWeather
MaxWeatherRows == 3
\* longest raw delay table and longest raw weather table of Spec
MaxRows == 2

---------------------------------------------------------------------------
(* Cells *)

Null == [tag |-> "null", n |-> 0, txt |-> ""]
Num(k) == [tag |-> "num", n |-> k, txt |-> ""]
Str(s) == [tag |-> "str", n |-> 0, txt |-> s]
Ts(m) == [tag |-> "ts", n |-> m, txt |-> ""]

\* pandas isna(): None, NaN and NaT
IsNull(c) == c.tag = "null"

MinutesPerDay == 1440
MinutesPerHour == 60
\* 2023-01-01 is day 19358 of the Unix epoch
Jan2023 == 19357
\* 1970-01-01 was a Thursday; pandas counts Monday as 0
EpochWeekday == 3

\* the timestamp of 2023-01-<dd> <hh>:<mm>
At(dd, hh, mm) == (Jan2023 + dd) * MinutesPerDay + hh * MinutesPerHour + mm

---------------------------------------------------------------------------
(* Type coercion: pd.to_numeric(errors='coerce') and                       *)
(* pd.to_datetime(errors='coerce'), cell by cell.                          *)

\* the decimal numerals among the texts of the model, and their values
NumeralTexts == {"0", "5", "05", "10", "15", "-1", "85"}

NumeralValue(s) ==
    CASE s = "0" -> 0
      [] s = "5" -> 5
      [] s = "05" -> 5
      [] s = "10" -> 10
      [] s = "15" -> 15
      [] s = "-1" -> 0 - 1
      [] s = "85" -> 85

\* the date and time texts among the texts of the model that parse, and their
\* timestamps; every other text ("n/a", "2023-01-17 25:00:00") does not parse
DatetimeTexts == {"2023-01-15", "2023-01-16", "2023-01-17", "2023-01-18",
                  "2023-01-15 08:00:00", "2023-01-16 10:30:00",
                  "2023-01-17 12:00:00", "2023-01-18 14:00:00",
                  "2023-01-15 08:05:00", "2023-01-15 10:30:00",
                  "2023-01-16 08:00:00", "2023-01-16 08:10:00",
                  "2023-01-16 10:35:00", "2023-01-17 08:00:00",
                  "2023-01-17 12:15:00", "2023-01-18 09:00:00",
                  "2023-01-18 09:02:00", "2023-01-18 14:20:00"}

DatetimeValue(s) ==
    CASE s = "2023-01-15" -> At(15, 0, 0)
      [] s = "2023-01-16" -> At(16, 0, 0)
      [] s = "2023-01-17" -> At(17, 0, 0)
      [] s = "2023-01-18" -> At(18, 0, 0)
      [] s = "2023-01-15 08:00:00" -> At(15, 8, 0)
      [] s = "2023-01-16 10:30:00" -> At(16, 10, 30)
      [] s = "2023-01-17 12:00:00" -> At(17, 12, 0)
      [] s = "2023-01-18 14:00:00" -> At(18, 14, 0)
      [] s = "2023-01-15 08:05:00" -> At(15, 8, 5)
      [] s = "2023-01-15 10:30:00" -> At(15, 10, 30)
      [] s = "2023-01-16 08:00:00" -> At(16, 8, 0)
      [] s = "2023-01-16 08:10:00" -> At(16, 8, 10)
      [] s = "2023-01-16 10:35:00" -> At(16, 10, 35)
      [] s = "2023-01-17 08:00:00" -> At(17, 8, 0)
      [] s = "2023-01-17 12:15:00" -> At(17, 12, 15)
      [] s = "2023-01-18 09:00:00" -> At(18, 9, 0)
      [] s = "2023-01-18 09:02:00" -> At(18, 9, 2)
      [] s = "2023-01-18 14:20:00" -> At(18, 14, 20)

\* pd.to_numeric(errors='coerce') on one cell: a number stays, a numeral is
\* parsed, anything else becomes NaN
ToNumericCell(c) ==
    CASE c.tag = "num" -> c
      [] c.tag = "str" -> IF c.txt \in NumeralTexts THEN Num(NumeralValue(c.txt)) ELSE Null
      [] OTHER -> Null

\* pd.to_datetime(errors='coerce') on one cell: a timestamp stays, a date text
\* is parsed, anything else becomes NaT
ToDatetimeCell(c) ==
    CASE c.tag = "ts" -> c
      [] c.tag = "str" -> IF c.txt \in DatetimeTexts THEN Ts(DatetimeValue(c.txt)) ELSE Null
      [] OTHER -> Null

\* DayOfWeekCell counting Sunday, not Monday, as 0
DayOfWeekCell_SundayZero(c) ==
    IF c.tag = "ts" THEN Num(((c.n \div MinutesPerDay) + EpochWeekday + 1) % 7) ELSE Null

\* Series.dt.dayofweek and Series.dt.hour on one cell (NaN for NaT)
DayOfWeekCell(c) ==
    IF c.tag = "ts" THEN Num(((c.n \div MinutesPerDay) + EpochWeekday) % 7) ELSE Null

HourCell(c) ==
    IF c.tag = "ts" THEN Num((c.n % MinutesPerDay) \div MinutesPerHour) ELSE Null

---------------------------------------------------------------------------
(* DataFrames *)

EmptyFrame == [cols |-> {}, dtype |-> <<>>, rows |-> <<>>]

NumericDtypes == {"int64", "float64"}

\* the dtype pandas infers for a column of cells
InferDtype(cells) ==
    IF cells = <<>> THEN "object"
    ELSE IF \A i \in DOMAIN cells : cells[i].tag = "num" THEN "int64"
    ELSE IF \A i \in DOMAIN cells : cells[i].tag \in {"num", "null"} THEN "float64"
    ELSE IF (\A i \in DOMAIN cells : cells[i].tag \in {"ts", "null"})
              /\ (\E j \in DOMAIN cells : cells[j].tag = "ts") THEN "datetime64"
    ELSE "object"

\* df[c]
Column(df, c) == [i \in 1..Len(df.rows) |-> df.rows[i][c]]

\* df[c] = cells, with the dtype dt
SetColumn(df, c, cells, dt) ==
    [cols |-> df.cols \cup {c},
     dtype |-> [k \in df.cols \cup {c} |-> IF k = c THEN dt ELSE df.dtype[k]],
     rows |-> [i \in 1..Len(df.rows) |->
                 [k \in df.cols \cup {c} |-> IF k = c THEN cells[i] ELSE df.rows[i][k]]]]

\* pd.DataFrame(list of dicts): the rows projected on cols; an empty list
\* gives a frame without columns
DataFrame(rows, cols) ==
    IF rows = <<>> THEN EmptyFrame
    ELSE LET proj == [i \in 1..Len(rows) |-> [k \in cols |-> rows[i][k]]]
         IN [cols |-> cols,
             dtype |-> [k \in cols |-> InferDtype([j \in 1..Len(proj) |-> proj[j][k]])],
             rows |-> proj]

\* the rows of a sequence at the positions of keep, in order
RECURSIVE SelectRows(_, _, _)
SelectRows(rows, keep, i) ==
    IF i > Len(rows) THEN <<>>
    ELSE (IF i \in keep THEN <<rows[i]>> ELSE <<>>) \o SelectRows(rows, keep, i + 1)

\* DropDuplicates that also drops the rows holding a null
DropDuplicates_AndNulls(df) ==
    LET keep == {i \in 1..Len(df.rows) :
                    /\ \A k \in df.cols : df.rows[i][k].tag # "null"
                    /\ ~ \E j \in 1..(i - 1) : df.rows[j] = df.rows[i]}
    IN [df EXCEPT !.rows = SelectRows(df.rows, keep, 1)]

\* DataFrame.drop_duplicates(): of the rows equal in every column (a null
\* equals a null) the first stays
DropDuplicates(df) ==
    LET keep == {i \in 1..Len(df.rows) : ~ \E j \in 1..(i - 1) : df.rows[j] = df.rows[i]}
    IN [df EXCEPT !.rows = SelectRows(df.rows, keep, 1)]

\* DataFrame.dropna(): the rows without a null in any column stay
DropNa(df) ==
    LET keep == {i \in 1..Len(df.rows) : \A k \in df.cols : ~ IsNull(df.rows[i][k])}
    IN [df EXCEPT !.rows = SelectRows(df.rows, keep, 1)]

\* df[c] = pd.to_numeric(df[c], errors='coerce'); a float64 column stays
\* float64
ToNumericColumn(df, c) ==
    LET cells == [i \in 1..Len(df.rows) |-> ToNumericCell(df.rows[i][c])]
    IN SetColumn(df, c, cells,
                 IF df.dtype[c] = "float64" \/ \E i \in DOMAIN cells : IsNull(cells[i])
                 THEN "float64" ELSE "int64")

\* df[c] = pd.to_datetime(df[c], errors='coerce')
ToDatetimeColumn(df, c) ==
    SetColumn(df, c, [i \in 1..Len(df.rows) |-> ToDatetimeCell(df.rows[i][c])], "datetime64")

\* df[c] = df[c].fillna(v)
FillNa(df, c, v) ==
    SetColumn(df, c, [i \in 1..Len(df.rows) |->
                        IF IsNull(df.rows[i][c]) THEN v ELSE df.rows[i][c]], df.dtype[c])

---------------------------------------------------------------------------
(* DataCleaner.clean_train_delays, cleaner.py:15-52 *)

\* the columns the try block converts, in the order of the code
TrainConversions == <<"delay_minutes", "scheduled_time", "actual_time", "date">>

\* `if c in df.columns`
InColumns(df, c) == c \in df.cols

\* df[c] raises KeyError exactly when the frame has no column c
HasKey(df, c) == c \in df.cols

ConvertTrainColumn(df, c) ==
    IF c = "delay_minutes" THEN ToNumericColumn(df, c) ELSE ToDatetimeColumn(df, c)

\* The try block: each conversion behind its guard, in order.  A KeyError
\* ends the block; keyError names the column it was raised for.
RECURSIVE ConvertTrainTypes(_, _)
ConvertTrainTypes(df, todo) ==
    IF todo = <<>> THEN [df |-> df, keyError |-> "none"]
    ELSE LET c == Head(todo)
         IN IF InColumns(df, c)
            THEN IF HasKey(df, c)
                 THEN ConvertTrainTypes(ConvertTrainColumn(df, c), Tail(todo))
                 ELSE [df |-> df, keyError |-> c]
            ELSE ConvertTrainTypes(df, Tail(todo))

\* FillDelays without the fillna(0) of line 42
FillDelays_NoFill(df) == df

\* step 2: nulls of delay_minutes become 0
FillDelays(df) ==
    IF InColumns(df, "delay_minutes") THEN FillNa(df, "delay_minutes", Num(0)) ELSE df

\* step 4: day_of_week and hour_of_day from scheduled_time
DeriveTimeFeatures(df) ==
    IF InColumns(df, "scheduled_time")
    THEN LET sched == Column(df, "scheduled_time")
             dow == [i \in DOMAIN sched |-> DayOfWeekCell(sched[i])]
             hod == [i \in DOMAIN sched |-> HourCell(sched[i])]
             dt(cells) == IF \E i \in DOMAIN cells : IsNull(cells[i])
                          THEN "float64" ELSE "int64"
         IN SetColumn(SetColumn(df, "day_of_week", dow, dt(dow)), "hour_of_day", hod, dt(hod))
    ELSE df

\* the frame after steps 1 and 2, before the duplicates are removed
CoerceTrain(df) == FillDelays(ConvertTrainTypes(df, TrainConversions).df)

\* clean_train_delays removing the duplicates before the type conversion
clean_train_delays_DedupFirst(df) ==
    LET conv == ConvertTrainTypes(DropDuplicates(df), TrainConversions)
    IN [df |-> DeriveTimeFeatures(FillDelays(conv.df)), printed |-> <<>>]

\* the whole function: the returned frame (the argument, mutated in place)
\* and the messages it prints
clean_train_delays(df) ==
    LET conv == ConvertTrainTypes(df, TrainConversions)
    IN [df |-> DeriveTimeFeatures(DropDuplicates(FillDelays(conv.df))),
        printed |-> IF conv.keyError = "none" THEN <<>>
                    ELSE <<[msg |-> "Warning: Column not found for type conversion in train delays.",
                            column |-> conv.keyError]>>]

---------------------------------------------------------------------------
(* DataCleaner.clean_weather_data, cleaner.py:54-85 *)

\* the columns the try block converts, in the order of the code
WeatherConversions == <<"temperature", "humidity", "wind_speed", "precipitation", "date">>

ConvertWeatherColumn(df, c) ==
    IF c = "date" THEN ToDatetimeColumn(df, c) ELSE ToNumericColumn(df, c)

\* The try block: each conversion behind its guard, in order.
RECURSIVE ConvertWeatherTypes(_, _)
ConvertWeatherTypes(df, todo) ==
    IF todo = <<>> THEN [df |-> df, keyError |-> "none"]
    ELSE LET c == Head(todo)
         IN IF InColumns(df, c)
            THEN IF HasKey(df, c)
                 THEN ConvertWeatherTypes(ConvertWeatherColumn(df, c), Tail(todo))
                 ELSE [df |-> df, keyError |-> c]
            ELSE ConvertWeatherTypes(df, Tail(todo))

\* clean_weather_data dropping only the rows with a null in a converted column
clean_weather_data_SubsetDropna(df) ==
    LET conv == ConvertWeatherTypes(df, WeatherConversions).df
        keep == {i \in 1..Len(conv.rows) :
                    \A k \in conv.cols \cap {"temperature", "humidity", "wind_speed",
                                             "precipitation", "date"} :
                        ~ IsNull(conv.rows[i][k])}
    IN [df |-> [conv EXCEPT !.rows = SelectRows(conv.rows, keep, 1)], printed |-> <<>>]

\* the whole function: the returned frame (the argument, mutated in place)
\* and the messages it prints
clean_weather_data(df) ==
    LET conv == ConvertWeatherTypes(df, WeatherConversions)
    IN [df |-> DropNa(conv.df),
        printed |-> IF conv.keyError = "none" THEN <<>>
                    ELSE <<[msg |-> "Warning: Column not found for type conversion in weather data.",
                            column |-> conv.keyError]>>]

---------------------------------------------------------------------------
(* DataCleaner.merge_data, cleaner.py:87-109 *)

\* pd.merge raises ValueError for key columns of kinds it cannot compare
KeyDtypesCompatible(a, b) ==
    \/ a = b
    \/ (a \in NumericDtypes /\ b \in NumericDtypes)

\* the positions of the right rows whose key equals the key of a left row
\* (pd.merge matches a null key with a null key)
Matches(l, right, key) == {j \in 1..Len(right.rows) : right.rows[j][key] = l[key]}

\* a row of the merged frame: the left row and, beside it, the right row
JoinRow(l, r, left, right) ==
    [k \in left.cols \cup right.cols |-> IF k \in left.cols THEN l[k] ELSE r[k]]

\* NullRow filling the weather fields with 0
NullRow_Zeros(right) == [k \in right.cols |-> Num(0)]

\* the right side of a left row without a match
NullRow(right) == [k \in right.cols |-> Null]

\* the merged rows of the left rows from position i on: for each left row its
\* matches in the order of the right frame, or, in a left join, one row
\* with nulls when it has none
RECURSIVE JoinRows(_, _, _, _, _)
JoinRows(left, right, key, kind, i) ==
    IF i > Len(left.rows) THEN <<>>
    ELSE LET l == left.rows[i]
             m == Matches(l, right, key)
             mine == IF m = {}
                     THEN IF kind = "left" THEN <<JoinRow(l, NullRow(right), left, right)>>
                          ELSE <<>>
                     ELSE [n \in 1..Cardinality(m) |->
                             JoinRow(l, right.rows[CHOOSE j \in m :
                                        Cardinality({x \in m : x < j}) = n - 1], left, right)]
         IN mine \o JoinRows(left, right, key, kind, i + 1)

\* pd.merge(left, right, on=key, how=kind) for frames that share no column
\* but the key
Merge(left, right, key, kind) ==
    LET rows == JoinRows(left, right, key, kind, 1)
        cols == left.cols \cup right.cols
        cells(k) == [i \in 1..Len(rows) |-> rows[i][k]]
    IN [cols |-> cols,
        dtype |-> [k \in cols |->
                     IF k \in left.cols THEN left.dtype[k]
                     ELSE IF right.dtype[k] = "int64"
                             /\ \E i \in 1..Len(rows) : IsNull(rows[i][k])
                          THEN "float64" ELSE right.dtype[k]],
        rows |-> rows]

\* merge_data handing back the delay table when the merge fails
merge_data_ReturnsLeft(train, weather, on_column, kind) ==
    IF on_column \notin train.cols \/ on_column \notin weather.cols
    THEN [df |-> train,
          printed |-> <<[msg |-> "Error merging data: Missing key in one of the DataFrames.",
                         column |-> on_column]>>]
    ELSE [df |-> Merge(train, weather, on_column, kind), printed |-> <<>>]

\* the whole function: the returned frame and the messages it prints
merge_data(train, weather, on_column, kind) ==
    IF on_column \notin train.cols \/ on_column \notin weather.cols
    THEN \* pd.merge raises KeyError, lines 104-106
         [df |-> EmptyFrame,
          printed |-> <<[msg |-> "Error merging data: Missing key in one of the DataFrames.",
                         column |-> on_column]>>]
    ELSE IF ~ KeyDtypesCompatible(train.dtype[on_column], weather.dtype[on_column])
    THEN \* pd.merge raises ValueError, lines 107-109
         [df |-> EmptyFrame,
          printed |-> <<[msg |-> "An unexpected error occurred during merging",
                         column |-> on_column]>>]
    ELSE [df |-> Merge(train, weather, on_column, kind), printed |-> <<>>]

---------------------------------------------------------------------------
(* StatisticalAnalyzer, statistical_model.py:17-138.  A call returns         *)
(* [ret, printed]: the value returned, a record with a field kind ("None"   *)
(* for None), and the messages printed.  The numbers scipy and pandas       *)
(* compute from a sample (t, p, the correlation coefficient, the quartiles) *)
(* are not computed: the result holds the sample they are computed from.    *)

None == [kind |-> "None"]

\* pd.DataFrame(): no columns, no rows
EmptyResultFrame == [kind |-> "frame", cols |-> {}, index |-> <<>>, rows |-> <<>>]

\* the non-null numbers of column c at the positions of P, in row order
RECURSIVE ValuesAt(_, _, _, _)
ValuesAt(df, c, P, i) ==
    IF i > Len(df.rows) THEN <<>>
    ELSE (IF i \in P /\ ~ IsNull(df.rows[i][c]) THEN <<df.rows[i][c].n>> ELSE <<>>)
         \o ValuesAt(df, c, P, i + 1)

RECURSIVE SumOf(_)
SumOf(xs) == IF xs = <<>> THEN 0 ELSE Head(xs) + SumOf(Tail(xs))

\* lines 28-36
get_descriptive_statistics(df, column) ==
    IF column \notin df.cols \/ df.dtype[column] \notin NumericDtypes
    THEN [ret |-> None, printed |-> <<[msg |-> "Error: Column not found or is not numeric.",
                                        column |-> column]>>]
    ELSE LET xs == ValuesAt(df, column, 1..Len(df.rows), 1)
         IN [ret |-> [kind |-> "describe", count |-> Len(xs), sum |-> SumOf(xs),
                      values |-> xs],
             printed |-> <<>>]

\* perform_t_test asking for three observations in a group
perform_t_test_ThreeNeeded(df, group_col, value_col, group1_val, group2_val) ==
    IF group_col \notin df.cols \/ value_col \notin df.cols
    THEN [ret |-> None, printed |-> <<>>]
    ELSE IF df.dtype[value_col] \notin NumericDtypes
    THEN [ret |-> None, printed |-> <<>>]
    ELSE LET in1 == {i \in 1..Len(df.rows) : df.rows[i][group_col] = group1_val}
             in2 == {i \in 1..Len(df.rows) : df.rows[i][group_col] = group2_val}
             group1 == ValuesAt(df, value_col, in1, 1)
             group2 == ValuesAt(df, value_col, in2, 1)
         IN IF Len(group1) < 3 \/ Len(group2) < 3
            THEN [ret |-> None, printed |-> <<>>]
            ELSE [ret |-> [kind |-> "ttest", group1 |-> group1, group2 |-> group2],
                  printed |-> <<>>]

\* perform_t_test asking for one observation in a group
perform_t_test_OneEnough(df, group_col, value_col, group1_val, group2_val) ==
    IF group_col \notin df.cols \/ value_col \notin df.cols
    THEN [ret |-> None, printed |-> <<>>]
    ELSE IF df.dtype[value_col] \notin NumericDtypes
    THEN [ret |-> None, printed |-> <<>>]
    ELSE LET in1 == {i \in 1..Len(df.rows) : df.rows[i][group_col] = group1_val}
             in2 == {i \in 1..Len(df.rows) : df.rows[i][group_col] = group2_val}
             group1 == ValuesAt(df, value_col, in1, 1)
             group2 == ValuesAt(df, value_col, in2, 1)
         IN IF Len(group1) < 1 \/ Len(group2) < 1
            THEN [ret |-> None, printed |-> <<>>]
            ELSE [ret |-> [kind |-> "ttest", group1 |-> group1, group2 |-> group2],
                  printed |-> <<>>]

\* lines 54-73
perform_t_test(df, group_col, value_col, group1_val, group2_val) ==
    IF group_col \notin df.cols \/ value_col \notin df.cols
    THEN [ret |-> None, printed |-> <<[msg |-> "Error: Required columns not found.",
                                        column |-> group_col]>>]
    ELSE IF df.dtype[value_col] \notin NumericDtypes
    THEN [ret |-> None, printed |-> <<[msg |-> "Error: Value column is not numeric.",
                                        column |-> value_col]>>]
    ELSE LET in1 == {i \in 1..Len(df.rows) : df.rows[i][group_col] = group1_val}
             in2 == {i \in 1..Len(df.rows) : df.rows[i][group_col] = group2_val}
             group1 == ValuesAt(df, value_col, in1, 1)
             group2 == ValuesAt(df, value_col, in2, 1)
         IN IF Len(group1) < 2 \/ Len(group2) < 2
            THEN [ret |-> None,
                  printed |-> <<[msg |-> "Error: Not enough data points in one or both groups for t-test.",
                                 column |-> value_col]>>]
            ELSE [ret |-> [kind |-> "ttest", group1 |-> group1, group2 |-> group2],
                  printed |-> <<>>]

\* calculate_correlation without the check of the column types
calculate_correlation_NoTypeCheck(df, col1, col2) ==
    IF col1 \notin df.cols \/ col2 \notin df.cols
    THEN [ret |-> None, printed |-> <<[msg |-> "Error: Columns not found.", column |-> col1]>>]
    ELSE LET both == {i \in 1..Len(df.rows) :
                         ~ IsNull(df.rows[i][col1]) /\ ~ IsNull(df.rows[i][col2])}
         IN [ret |-> [kind |-> "corr", xs |-> ValuesAt(df, col1, both, 1),
                      ys |-> ValuesAt(df, col2, both, 1)],
             printed |-> <<>>]

\* lines 89-100
calculate_correlation(df, col1, col2) ==
    IF col1 \notin df.cols \/ col2 \notin df.cols
    THEN [ret |-> None, printed |-> <<[msg |-> "Error: Columns not found.", column |-> col1]>>]
    ELSE IF df.dtype[col1] \notin NumericDtypes \/ df.dtype[col2] \notin NumericDtypes
    THEN [ret |-> None,
          printed |-> <<[msg |-> "Error: One or both columns are not numeric for correlation calculation.",
                         column |-> col1]>>]
    ELSE LET both == {i \in 1..Len(df.rows) :
                         ~ IsNull(df.rows[i][col1]) /\ ~ IsNull(df.rows[i][col2])}
         IN [ret |-> [kind |-> "corr", xs |-> ValuesAt(df, col1, both, 1),
                      ys |-> ValuesAt(df, col2, both, 1)],
             printed |-> <<>>]

\* the width of a resampling bucket, in minutes
BucketMinutes(freq) == IF freq = "D" THEN MinutesPerDay ELSE MinutesPerHour

SetMin(S) == CHOOSE x \in S : \A y \in S : x <= y
SetMax(S) == CHOOSE x \in S : \A y \in S : x >= y

\* Resample leaving out the buckets that hold no row
Resample_DropsEmptyBuckets(df, time_col, value_col, freq) ==
    LET w == BucketMinutes(freq)
        timed == {i \in 1..Len(df.rows) : ~ IsNull(df.rows[i][time_col])}
        bucket(i) == df.rows[i][time_col].n \div w
        buckets == {bucket(i) : i \in timed}
        nth(k) == CHOOSE b \in buckets : Cardinality({c \in buckets : c < b}) = k - 1
        xs(b) == ValuesAt(df, value_col, {i \in timed : bucket(i) = b}, 1)
    IN [kind |-> "frame", cols |-> {value_col},
        index |-> [k \in 1..Cardinality(buckets) |-> nth(k) * w],
        rows |-> [k \in 1..Cardinality(buckets) |->
                    [sum |-> SumOf(xs(nth(k))), count |-> Len(xs(nth(k)))]]]

\* df.set_index(time_col)[value_col].resample(freq).agg(agg_func).to_frame():
\* one row per bucket from the first to the last bucket that holds a row, the
\* rows without a time left out; a row holds the sum and the count of the
\* non-null values of its bucket (the mean is sum/count, NaN when count is 0)
Resample(df, time_col, value_col, freq) ==
    LET w == BucketMinutes(freq)
        timed == {i \in 1..Len(df.rows) : ~ IsNull(df.rows[i][time_col])}
        bucket(i) == df.rows[i][time_col].n \div w
        buckets == {bucket(i) : i \in timed}
    IN IF timed = {}
       THEN [kind |-> "frame", cols |-> {value_col}, index |-> <<>>, rows |-> <<>>]
       ELSE LET lo == SetMin(buckets)
                hi == SetMax(buckets)
                xs(b) == ValuesAt(df, value_col, {i \in timed : bucket(i) = b}, 1)
            IN [kind |-> "frame", cols |-> {value_col},
                index |-> [k \in 1..(hi - lo + 1) |-> (lo + k - 1) * w],
                rows |-> [k \in 1..(hi - lo + 1) |->
                            [sum |-> SumOf(xs(lo + k - 1)), count |-> Len(xs(lo + k - 1))]]]

\* aggregate_by_time returning None, as its siblings do, for a missing column
aggregate_by_time_ReturnsNone(df, time_col, value_col, freq, agg_func) ==
    IF time_col \notin df.cols \/ value_col \notin df.cols
    THEN [ret |-> None, printed |-> <<>>]
    ELSE [ret |-> Resample(df, time_col, value_col, freq), printed |-> <<>>]

\* lines 117-138, for a string agg_func
aggregate_by_time(df, time_col, value_col, freq, agg_func) ==
    IF time_col \notin df.cols \/ value_col \notin df.cols
    THEN [ret |-> EmptyResultFrame,
          printed |-> <<[msg |-> "Error: Required columns not found for aggregation.",
                         column |-> time_col]>>]
    ELSE IF df.dtype[time_col] # "datetime64"
    THEN [ret |-> EmptyResultFrame,
          printed |-> <<[msg |-> "Error: Time column is not a datetime type.",
                         column |-> time_col]>>]
    ELSE IF df.dtype[value_col] \notin NumericDtypes
    THEN [ret |-> EmptyResultFrame,
          printed |-> <<[msg |-> "Error: Value column is not numeric.", column |-> value_col]>>]
    ELSE [ret |-> Resample(df, time_col, value_col, freq), printed |-> <<>>]

---------------------------------------------------------------------------
(* The raw tables *)

TrainColumns == {"train_id", "scheduled_time", "actual_time", "delay_minutes", "route", "date"}

\* the columns clean_train_delays looks for
TrainExpected == {"delay_minutes", "scheduled_time", "actual_time", "date"}

TrainRow(id, sched, actual, delay, route, date) ==
    [train_id |-> Str(id), scheduled_time |-> sched, actual_time |-> actual,
     delay_minutes |-> delay, route |-> Str(route), date |-> date]

\* the raw delay records the tables of the model are made of: records as the
\* sample data has them (main.py:80-89), the same records with cells of
\* another type, and records with missing or unparsable cells
TrainPool ==
    { TrainRow("R123", Str("2023-01-15 08:00:00"), Str("2023-01-15 08:00:00"), Num(5),
               "Ostrava-Frenstat", Str("2023-01-15")),
      TrainRow("R123", Ts(At(15, 8, 0)), Str("2023-01-15 08:00:00"), Str("05"),
               "Ostrava-Frenstat", Str("2023-01-15")),
      TrainRow("EC456", Str("2023-01-16 10:30:00"), Null, Null,
               "Ostrava-Frydlant", Str("2023-01-16")),
      TrainRow("EC456", Str("2023-01-16 10:30:00"), Str("n/a"), Str("n/a"),
               "Ostrava-Frydlant", Ts(At(16, 0, 0))),
      TrainRow("R123", Str("2023-01-17 25:00:00"), Null, Num(10),
               "Ostrava-Frenstat", Str("n/a")),
      TrainRow("R123", Str("2023-01-17 12:00:00"), Str("2023-01-17 12:00:00"), Str("15"),
               "Ostrava-Frenstat", Str("2023-01-17")) }

\* the column sets of the raw delay tables: train_id and route, and any of
\* the columns the cleaner looks for
TrainColumnSets == {{"train_id", "route"} \cup x : x \in SUBSET TrainExpected}

SeqsUpTo(S, n) == UNION {[1..k -> S] : k \in 0..n}

RawTables(pool, columnSets, n) ==
    {DataFrame(rows, cols) : rows \in SeqsUpTo(pool, n), cols \in columnSets}

RawTrainTables(n) == RawTables(TrainPool, TrainColumnSets, n)

WeatherColumns == {"date", "temperature", "humidity", "wind_speed", "precipitation",
                   "weather_condition"}

WeatherRow(date, temp, hum, wind, precip, cond) ==
    [date |-> date, temperature |-> temp, humidity |-> hum, wind_speed |-> wind,
     precipitation |-> precip, weather_condition |-> cond]

\* the raw weather records the tables of the model are made of: records as
\* the sample data has them (main.py:92-97), a second record for a date,
\* and records with missing or unparsable cells
WeatherPool ==
    { WeatherRow(Str("2023-01-15"), Num(2), Num(85), Num(15), Num(0), Str("cloudy")),
      WeatherRow(Str("2023-01-16"), Str("-1"), Str("85"), Num(10), Num(5), Str("snowy")),
      WeatherRow(Ts(At(15, 0, 0)), Num(5), Num(85), Num(10), Num(0), Str("rainy")),
      WeatherRow(Str("2023-01-17"), Str("n/a"), Num(85), Num(10), Num(0), Str("rainy")),
      WeatherRow(Str("2023-01-17"), Num(5), Num(85), Num(10), Num(0), Null),
      WeatherRow(Str("n/a"), Num(5), Num(85), Num(10), Num(0), Str("cloudy")) }

\* the column sets of the raw weather tables
WeatherColumnSets ==
    {WeatherColumns \ x : x \in SUBSET {"date", "temperature", "weather_condition"}}

RawWeatherTables(n) == RawTables(WeatherPool, WeatherColumnSets, n)

---------------------------------------------------------------------------
(* The calls *)

\* an output file: its path, the driver that wrote it and, for the files of
\* the GIS output, the CRS and the geometries it holds
WrittenFile(path, driver, crs, geometry) ==
    [path |-> path, driver |-> driver, crs |-> crs, geometry |-> geometry]

\* main.py:110  merged_df.to_csv(path, index=False)
WrittenCsv(path) == WrittenFile(path, "CSV", "", <<>>)

\* main.py:102  train_df_cleaned = data_cleaner.clean_train_delays(train_df_raw.copy())
Call_clean_train_delays ==
    /\ pc = "acquired"
    /\ LET r == clean_train_delays(train_df)
       IN /\ train_df' = r.df
          /\ log' = log \o r.printed
    /\ raised' = "none"
    /\ pc' = "train_cleaned"
    /\ UNCHANGED <<run, geo, train_df_raw, weather_df_raw, weather_df, merged_df, how, result, files>>

\* main.py:103  weather_df_cleaned = data_cleaner.clean_weather_data(weather_df_raw.copy())
Call_clean_weather_data ==
    /\ pc = "train_cleaned"
    /\ LET r == clean_weather_data(weather_df)
       IN /\ weather_df' = r.df
          /\ log' = log \o r.printed
    /\ raised' = "none"
    /\ pc' = "weather_cleaned"
    /\ UNCHANGED <<run, geo, train_df_raw, weather_df_raw, train_df, merged_df, how, result, files>>

\* the join kinds of the model; every call of the repository leaves the default
JoinKinds == {"left", "inner"}

\* main.py:105  merged_df = data_cleaner.merge_data(train_df_cleaned, weather_df_cleaned,
\*                                                  on_column='date')
Call_merge_data ==
    /\ pc = "weather_cleaned"
    /\ \E kind \in JoinKinds :
          LET r == merge_data(train_df, weather_df, "date", kind)
          IN /\ merged_df' = r.df
             /\ log' = log \o r.printed
             /\ how' = kind
    /\ raised' = "none"
    /\ pc' = "merged"
    /\ UNCHANGED <<run, geo, train_df_raw, weather_df_raw, train_df, weather_df, result, files>>

\* main.py:107-111  the merged table is not empty: it is written to the CSV
Save_merged ==
    /\ pc = "merged"
    /\ merged_df.rows # <<>> /\ merged_df.cols # {}
    /\ files' = files \cup {WrittenCsv("data/processed/final_merged_data.csv")}
    /\ log' = log \o <<[msg |-> "Processed data saved to data/processed/final_merged_data.csv",
                        column |-> ""]>>
    /\ pc' = "analysis"
    /\ UNCHANGED <<run, geo, train_df_raw, weather_df_raw, train_df, weather_df, merged_df, how,
                   result, raised>>

\* the stop left out: an empty merged table is reported and the run goes on
\* to the analysis
Exit_empty_Continues ==
    /\ pc = "merged"
    /\ (merged_df.rows = <<>> \/ merged_df.cols = {})
    /\ log' = log \o <<[msg |-> "Error: Merged DataFrame is empty. Exiting pipeline.",
                        column |-> ""]>>
    /\ pc' = "analysis"
    /\ UNCHANGED <<run, geo, train_df_raw, weather_df_raw, train_df, weather_df, merged_df, how,
                   result, files, raised>>

\* main.py:112-114  the merged table is empty: the run ends
Exit_empty ==
    /\ pc = "merged"
    /\ (merged_df.rows = <<>> \/ merged_df.cols = {})
    /\ log' = log \o <<[msg |-> "Error: Merged DataFrame is empty. Exiting pipeline.",
                        column |-> ""]>>
    /\ pc' = "done"
    /\ UNCHANGED <<run, geo, train_df_raw, weather_df_raw, train_df, weather_df, merged_df, how,
                   result, files, raised>>

\* main.py:123-124  merged_df['is_snowy'] = 1 where weather_condition is 'snowy', else 0
Add_is_snowy ==
    /\ pc = "analysis"
    /\ "weather_condition" \in merged_df.cols
    /\ "is_snowy" \notin merged_df.cols
    /\ merged_df' = SetColumn(merged_df, "is_snowy",
                              [i \in 1..Len(merged_df.rows) |->
                                 IF merged_df.rows[i]["weather_condition"] = Str("snowy")
                                 THEN Num(1) ELSE Num(0)], "int64")
    /\ UNCHANGED <<run, geo, train_df_raw, weather_df_raw, train_df, weather_df, how, result, files,
                   log, raised, pc>>

\* a call on the merged table returns: its value is kept with the name and
\* the arguments of the call
Returned(fn, args, r) ==
    /\ result' = [kind |-> "call", fn |-> fn, args |-> args, ret |-> r.ret]
    /\ log' = log \o r.printed
    /\ raised' = "none"
    /\ pc' = "called"
    /\ UNCHANGED <<run, geo, train_df_raw, weather_df_raw, train_df, weather_df, merged_df, how, files>>

\* the columns the calls of the model name
StatColumns == {"delay_minutes", "temperature"}

\* main.py:119  statistical_analyzer.get_descriptive_statistics(merged_df, 'delay_minutes')
Call_get_descriptive_statistics ==
    /\ pc = "analysis"
    /\ \E column \in StatColumns :
          Returned("get_descriptive_statistics", <<column>>,
                   get_descriptive_statistics(merged_df, column))

\* main.py:125  statistical_analyzer.perform_t_test(merged_df, 'is_snowy', 'delay_minutes', 1, 0)
Call_perform_t_test ==
    /\ pc = "analysis"
    /\ Returned("perform_t_test", <<"is_snowy", "delay_minutes">>,
                perform_t_test(merged_df, "is_snowy", "delay_minutes", Num(1), Num(0)))

\* main.py:130  statistical_analyzer.calculate_correlation(merged_df, 'delay_minutes', 'temperature')
Call_calculate_correlation ==
    /\ pc = "analysis"
    /\ Returned("calculate_correlation", <<"delay_minutes", "temperature">>,
                calculate_correlation(merged_df, "delay_minutes", "temperature"))

\* main.py:140  statistical_analyzer.aggregate_by_time(merged_df, 'scheduled_time',
\*                                                     'delay_minutes', freq='D', agg_func='mean')
Call_aggregate_by_time ==
    /\ pc = "analysis"
    /\ Returned("aggregate_by_time", <<"scheduled_time", "delay_minutes">>,
                aggregate_by_time(merged_df, "scheduled_time", "delay_minutes", "D", "mean"))

\* main.py:15  the key the source is shipped with
Placeholder == "YOUR_WEATHER_API_KEY"

\* the acquisition loop has not run, no chart was shown
RunNotStarted ==
    /\ api_key = Placeholder
    /\ current_date = 0
    /\ requests = <<>>
    /\ charts = <<>>
    /\ page = "none"

---------------------------------------------------------------------------
(* SpecTrain: clean_train_delays on every raw delay table of the bounds *)

NoResult == [kind |-> "none"]

InitTrain ==
    /\ train_df_raw \in RawTrainTables(MaxTrainRows)
    /\ train_df = train_df_raw
    /\ weather_df_raw = EmptyFrame
    /\ weather_df = EmptyFrame
    /\ merged_df = EmptyFrame
    /\ how = "left"
    /\ result = NoResult
    /\ files = {}
    /\ df_stations = EmptyFrame
    /\ gdf_stations = None
    /\ gdf_polygons = None
    /\ RunNotStarted
    /\ log = <<>>
    /\ raised = "none"
    /\ pc = "acquired"

NextTrain == Call_clean_train_delays

SpecTrain == InitTrain /\ [][NextTrain]_vars

---------------------------------------------------------------------------
(* SpecWeather: clean_weather_data on every raw weather table of the bounds *)

InitWeather ==
    /\ train_df_raw = EmptyFrame
    /\ train_df = clean_train_delays(EmptyFrame).df
    /\ weather_df_raw \in RawWeatherTables(MaxWeatherRows)
    /\ weather_df = weather_df_raw
    /\ merged_df = EmptyFrame
    /\ how = "left"
    /\ result = NoResult
    /\ files = {}
    /\ df_stations = EmptyFrame
    /\ gdf_stations = None
    /\ gdf_polygons = None
    /\ RunNotStarted
    /\ log = <<>>
    /\ raised = "none"
    /\ pc = "train_cleaned"

NextWeather == Call_clean_weather_data

SpecWeather == InitWeather /\ [][NextWeather]_vars

---------------------------------------------------------------------------
(* SpecReclean: each cleaner called on a raw table and then once more on  *)
(* the table it returned                                                   *)

InitReclean ==
    /\ \/ /\ train_df_raw \in RawTrainTables(MaxTrainRows)
          /\ weather_df_raw = EmptyFrame
       \/ /\ train_df_raw = EmptyFrame
          /\ weather_df_raw \in RawWeatherTables(MaxWeatherRows)
    /\ train_df = train_df_raw
    /\ weather_df = weather_df_raw
    /\ merged_df = EmptyFrame
    /\ how = "left"
    /\ result = NoResult
    /\ files = {}
    /\ df_stations = EmptyFrame
    /\ gdf_stations = None
    /\ gdf_polygons = None
    /\ RunNotStarted
    /\ log = <<>>
    /\ raised = "none"
    /\ pc = "acquired"

\* cleaner.py:15-52  clean_train_delays on the table it returned
Reclean_train_delays ==
    /\ pc = "weather_cleaned"
    /\ LET r == clean_train_delays(train_df)
       IN /\ train_df' = r.df
          /\ log' = log \o r.printed
    /\ raised' = "none"
    /\ pc' = "train_recleaned"
    /\ UNCHANGED <<run, geo, train_df_raw, weather_df_raw, weather_df, merged_df, how, result, files>>

\* cleaner.py:54-85  clean_weather_data on the table it returned
Reclean_weather_data ==
    /\ pc = "train_recleaned"
    /\ LET r == clean_weather_data(weather_df)
       IN /\ weather_df' = r.df
          /\ log' = log \o r.printed
    /\ raised' = "none"
    /\ pc' = "weather_recleaned"
    /\ UNCHANGED <<run, geo, train_df_raw, weather_df_raw, train_df, merged_df, how, result, files>>

NextReclean ==
    \/ Call_clean_train_delays
    \/ Call_clean_weather_data
    \/ Reclean_train_delays
    \/ Reclean_weather_data

SpecReclean == InitReclean /\ [][NextReclean]_vars

---------------------------------------------------------------------------

(* Spec: the cleaning, the merge and the analysis calls of a run *)

PipelineTrainPool ==
    {r \in TrainPool : r["delay_minutes"] \in {Num(5), Num(10), Str("15")}}

PipelineTrainColumnSets ==
    {TrainColumns, TrainColumns \ {"date"}, TrainColumns \ {"delay_minutes"}}

PipelineWeatherPool ==
    {r \in WeatherPool : r["weather_condition"] # Null /\ r["temperature"] # Str("n/a")
                         /\ r["date"] # Str("n/a")}

PipelineWeatherColumnSets ==
    {WeatherColumns, WeatherColumns \ {"date"}, WeatherColumns \ {"temperature"}}

Init ==
    /\ train_df_raw \in RawTables(PipelineTrainPool, PipelineTrainColumnSets, MaxRows)
    /\ train_df = train_df_raw
    /\ weather_df_raw \in RawTables(PipelineWeatherPool, PipelineWeatherColumnSets, MaxRows)
    /\ weather_df = weather_df_raw
    /\ merged_df = EmptyFrame
    /\ how = "left"
    /\ result = NoResult
    /\ files = {}
    /\ df_stations = EmptyFrame
    /\ gdf_stations = None
    /\ gdf_polygons = None
    /\ RunNotStarted
    /\ log = <<>>
    /\ raised = "none"
    /\ pc = "acquired"

Next ==
    \/ Call_clean_train_delays
    \/ Call_clean_weather_data
    \/ Call_merge_data
    \/ Save_merged
    \/ Exit_empty
    \/ Add_is_snowy
    \/ Call_get_descriptive_statistics
    \/ Call_perform_t_test
    \/ Call_calculate_correlation
    \/ Call_aggregate_by_time

Spec == Init /\ [][Next]_vars

---------------------------------------------------------------------------
(* SpecAnalysis: the analysis calls on the merged tables of the sample data *)

\* main.py:80-89  dummy_train_data
SampleTrainRows ==
    << TrainRow("R123", Str("2023-01-15 08:00:00"), Str("2023-01-15 08:05:00"), Num(5),
                "Ostrava-Frenstat", Str("2023-01-15")),
       TrainRow("EC456", Str("2023-01-15 10:30:00"), Str("2023-01-15 10:30:00"), Num(0),
                "Ostrava-Frydlant", Str("2023-01-15")),
       TrainRow("R123", Str("2023-01-16 08:00:00"), Str("2023-01-16 08:10:00"), Num(10),
                "Ostrava-Frenstat", Str("2023-01-16")),
       TrainRow("EC456", Str("2023-01-16 10:30:00"), Str("2023-01-16 10:35:00"), Num(5),
                "Ostrava-Frydlant", Str("2023-01-16")),
       TrainRow("R123", Str("2023-01-17 08:00:00"), Str("2023-01-17 08:00:00"), Num(0),
                "Ostrava-Frenstat", Str("2023-01-17")),
       TrainRow("R123", Str("2023-01-17 12:00:00"), Str("2023-01-17 12:15:00"), Num(15),
                "Ostrava-Frenstat", Str("2023-01-17")),
       TrainRow("EC456", Str("2023-01-18 09:00:00"), Str("2023-01-18 09:02:00"), Num(2),
                "Ostrava-Frydlant", Str("2023-01-18")),
       TrainRow("R123", Str("2023-01-18 14:00:00"), Str("2023-01-18 14:20:00"), Num(20),
                "Ostrava-Frenstat", Str("2023-01-18")) >>

\* main.py:92-97  dummy_weather_data; the temperature and the precipitation
\* are in tenths (2.5 degrees is 25)
SampleWeatherRows ==
    << WeatherRow(Str("2023-01-15"), Num(25), Num(85), Num(15), Num(5), Str("cloudy")),
       WeatherRow(Str("2023-01-16"), Num(0 - 10), Num(90), Num(20), Num(20), Str("snowy")),
       WeatherRow(Str("2023-01-17"), Num(50), Num(70), Num(10), Num(0), Str("rainy")),
       WeatherRow(Str("2023-01-18"), Num(30), Num(75), Num(12), Num(0), Str("partly cloudy")) >>

\* the most sample delay records a raw table of SpecAnalysis holds
MaxSampleRows == 5

\* the raw tables of SpecAnalysis: the sample tables with some records left out
SampleTrainTables ==
    {DataFrame(SelectRows(SampleTrainRows, S, 1), TrainColumns) :
        S \in {T \in SUBSET (1..Len(SampleTrainRows)) : Cardinality(T) <= MaxSampleRows}}

SampleWeatherTables ==
    {DataFrame(SelectRows(SampleWeatherRows, S, 1), WeatherColumns) :
        S \in SUBSET (1..Len(SampleWeatherRows))}

SelfTestColumns == {"train_id", "scheduled_time", "actual_time", "delay_minutes", "route",
                    "date", "temperature", "weather_condition"}

SelfTestRow(id, sched, actual, delay, route, date, temp, cond) ==
    [train_id |-> Str(id), scheduled_time |-> Str(sched), actual_time |-> Str(actual),
     delay_minutes |-> Num(delay), route |-> Str(route), date |-> Str(date),
     temperature |-> Num(temp), weather_condition |-> Str(cond)]

\* statistical_model.py:145-156  the six-row sample of the self-test, the
\* temperature in tenths, with scheduled_time and date converted
SelfTestTable ==
    LET rows ==
          << SelfTestRow("R123", "2023-01-15 08:00:00", "2023-01-15 08:05:00", 5,
                         "Ostrava-Frenstat", "2023-01-15", 25, "cloudy"),
             SelfTestRow("EC456", "2023-01-15 10:30:00", "2023-01-15 10:30:00", 0,
                         "Ostrava-Frydlant", "2023-01-15", 30, "sunny"),
             SelfTestRow("R123", "2023-01-16 08:00:00", "2023-01-16 08:10:00", 10,
                         "Ostrava-Frenstat", "2023-01-16", 0 - 10, "snowy"),
             SelfTestRow("EC456", "2023-01-16 10:30:00", "2023-01-16 10:35:00", 5,
                         "Ostrava-Frydlant", "2023-01-16", 0, "snowy"),
             SelfTestRow("R123", "2023-01-17 08:00:00", "2023-01-17 08:00:00", 0,
                         "Ostrava-Frenstat", "2023-01-17", 50, "rainy"),
             SelfTestRow("R123", "2023-01-17 12:00:00", "2023-01-17 12:15:00", 15,
                         "Ostrava-Frenstat", "2023-01-17", 60, "rainy") >>
    IN ToDatetimeColumn(ToDatetimeColumn(DataFrame(rows, SelfTestColumns), "scheduled_time"),
                        "date")

\* the column a call names for get_descriptive_statistics
DescribeArgs == {"delay_minutes", "temperature", "route", "scheduled_time"}

\* the group column and the two group values a call names for perform_t_test
GroupArgs == {<<"is_snowy", Num(1), Num(0)>>,
              <<"weather_condition", Str("snowy"), Str("rainy")>>}

\* the value column a call names for perform_t_test
TTestValueArgs == {"delay_minutes", "temperature", "route"}

\* the two columns a call names for calculate_correlation
CorrelationArgs == {"delay_minutes", "route"} \X {"temperature", "weather_condition"}

\* the time column and the value column a call names for aggregate_by_time
AggregateArgs == {"scheduled_time", "route", "delay_minutes"} \X {"delay_minutes", "route"}

Analyze_get_descriptive_statistics ==
    /\ pc = "analysis"
    /\ \E column \in DescribeArgs :
          Returned("get_descriptive_statistics", <<column>>,
                   get_descriptive_statistics(merged_df, column))

Analyze_perform_t_test ==
    /\ pc = "analysis"
    /\ \E g \in GroupArgs, value_col \in TTestValueArgs :
          Returned("perform_t_test", <<g[1], value_col>>,
                   perform_t_test(merged_df, g[1], value_col, g[2], g[3]))

Analyze_calculate_correlation ==
    /\ pc = "analysis"
    /\ \E a \in CorrelationArgs :
          Returned("calculate_correlation", <<a[1], a[2]>>,
                   calculate_correlation(merged_df, a[1], a[2]))

Analyze_aggregate_by_time ==
    /\ pc = "analysis"
    /\ \E a \in AggregateArgs :
          Returned("aggregate_by_time", <<a[1], a[2]>>,
                   aggregate_by_time(merged_df, a[1], a[2], "D", "mean"))

\* the state after Phase 2 of a run on a sample table (main.py:102-111), or
\* the table of the self-test (statistical_model.py:158-160)
InitAnalysis ==
    /\ \/ /\ train_df_raw \in SampleTrainTables
          /\ weather_df_raw \in SampleWeatherTables
          /\ train_df = clean_train_delays(train_df_raw).df
          /\ weather_df = clean_weather_data(weather_df_raw).df
          /\ merged_df = merge_data(train_df, weather_df, "date", "left").df
          /\ files = {WrittenCsv("data/processed/final_merged_data.csv")}
       \/ /\ train_df_raw = EmptyFrame
          /\ weather_df_raw = EmptyFrame
          /\ train_df = EmptyFrame
          /\ weather_df = EmptyFrame
          /\ merged_df = SelfTestTable
          /\ files = {}
    /\ merged_df.rows # <<>>
    /\ how = "left"
    /\ result = NoResult
    /\ df_stations = EmptyFrame
    /\ gdf_stations = None
    /\ gdf_polygons = None
    /\ RunNotStarted
    /\ log = <<>>
    /\ raised = "none"
    /\ pc = "analysis"

NextAnalysis ==
    \/ Add_is_snowy
    \/ Analyze_get_descriptive_statistics
    \/ Analyze_perform_t_test
    \/ Analyze_calculate_correlation
    \/ Analyze_aggregate_by_time

SpecAnalysis == InitAnalysis /\ [][NextAnalysis]_vars

---------------------------------------------------------------------------
(* The spatial processor (src/src/gis_output/spatial_processor.py)         *)
(*                                                                         *)
(* A GeoDataFrame is a record [kind, crs, cols, rows, geometry]: the CRS   *)
(* tag, the attribute columns, the attribute rows and one geometry per     *)
(* row.  A coordinate of EPSG:4326 is in ten-thousandths of a degree       *)
(* (49.8465 is 498465), a coordinate of EPSG:3857 in metres.               *)

\* the coordinate reference systems of the model
CrsNames == {"EPSG:4326", "EPSG:3857"}

\* shapely Point(xy) of zip(df[lon_col], df[lat_col])
Point(lon, lat) == [x |-> lon, y |-> lat]

\* shapely Polygon of the four corners of a rectangle
Box(xmin, ymin, xmax, ymax) == [xmin |-> xmin, ymin |-> ymin, xmax |-> xmax, ymax |-> ymax]

\* metres per ten-thousandth of a degree, eastwards and (near latitude 49.7
\* on the Mercator grid) northwards
MetresEast == 11
MetresNorth == 17

\* the coordinates of a point in another CRS.  The projection arithmetic of
\* pyproj is not reproduced: it is stood for by a scaling that, like the
\* projection, changes every coordinate and is undone by the way back.
Transform(p, from, to) ==
    IF from = to THEN p
    ELSE IF to = "EPSG:3857" THEN Point(p.x * MetresEast, p.y * MetresNorth)
    ELSE Point(p.x \div MetresEast, p.y \div MetresNorth)

\* GeoDataFrame.to_crs(crs): a new GeoDataFrame, the receiver is left alone
to_crs(gdf, crs) ==
    [gdf EXCEPT !.crs = crs,
                !.geometry = [i \in DOMAIN gdf.geometry |->
                                Transform(gdf.geometry[i], gdf.crs, crs)]]

\* create_gdf_from_points keeping the rows without coordinates, at (0, 0)
create_gdf_from_points_KeepsNulls(df, lat_col, lon_col, crs) ==
    IF lat_col \notin df.cols \/ lon_col \notin df.cols
    THEN [ret |-> None, printed |-> <<>>]
    ELSE [ret |-> [kind |-> "gdf", crs |-> crs, cols |-> df.cols \cup {"geometry"},
                   rows |-> df.rows,
                   geometry |-> [i \in 1..Len(df.rows) |->
                                   Point(df.rows[i][lon_col].n, df.rows[i][lat_col].n)]],
          printed |-> <<>>]

\* lines 32-45
create_gdf_from_points(df, lat_col, lon_col, crs) ==
    IF lat_col \notin df.cols \/ lon_col \notin df.cols
    THEN [ret |-> None,
          printed |-> <<[msg |-> "Error: Latitude column or longitude column not found.",
                         column |-> lat_col]>>]
    ELSE LET keep == {i \in 1..Len(df.rows) :
                         ~ IsNull(df.rows[i][lat_col]) /\ ~ IsNull(df.rows[i][lon_col])}
             df_cleaned == SelectRows(df.rows, keep, 1)
         IN IF \E i \in DOMAIN df_cleaned :
                  df_cleaned[i][lat_col].tag # "num" \/ df_cleaned[i][lon_col].tag # "num"
            THEN [ret |-> None,
                  printed |-> <<[msg |-> "An error occurred while creating GeoDataFrame from points",
                                 column |-> lat_col]>>]
            ELSE [ret |-> [kind |-> "gdf", crs |-> crs, cols |-> df.cols \cup {"geometry"},
                           rows |-> df_cleaned,
                           geometry |-> [i \in 1..Len(df_cleaned) |->
                                           Point(df_cleaned[i][lon_col].n,
                                                 df_cleaned[i][lat_col].n)]],
                  printed |-> <<>>]

\* shapely within: the point lies in the interior of the polygon
Within(p, b) == b.xmin < p.x /\ p.x < b.xmax /\ b.ymin < p.y /\ p.y < b.ymax

\* spatial_join_data joining the points as they are, whatever their CRS
spatial_join_data_NoReprojection(points_gdf, polygons_gdf, accepts_op) ==
    IF ~ accepts_op
    THEN [ret |-> None, printed |-> <<>>]
    ELSE [ret |-> [kind |-> "joined", crs |-> points_gdf.crs,
                   geometry |-> points_gdf.geometry,
                   pairs |-> {<<i, j>> \in (DOMAIN points_gdf.geometry)
                                           \X (DOMAIN polygons_gdf.geometry) :
                                 Within(points_gdf.geometry[i], polygons_gdf.geometry[j])}],
          printed |-> <<>>]

\* lines 77-87.  The joined table is kept as its CRS, the geometries of its
\* points and the (point, polygon) pairs of the containment join.  accepts_op
\* tells whether the installed gpd.sjoin takes the keyword op (it was renamed
\* predicate; without it the call raises TypeError, which line 85 catches).
spatial_join_data(points_gdf, polygons_gdf, accepts_op) ==
    LET differ == points_gdf.crs # polygons_gdf.crs
        warning == IF differ
                   THEN <<[msg |-> "Warning: CRS mismatch. Reprojecting points_gdf to",
                           column |-> polygons_gdf.crs]>>
                   ELSE <<>>
        points == IF differ THEN to_crs(points_gdf, polygons_gdf.crs) ELSE points_gdf
    IN IF ~ accepts_op
       THEN [ret |-> None,
             printed |-> warning \o <<[msg |-> "An error occurred during spatial join",
                                       column |-> ""]>>]
       ELSE [ret |-> [kind |-> "joined", crs |-> points.crs, geometry |-> points.geometry,
                      pairs |-> {<<i, j>> \in (DOMAIN points.geometry)
                                              \X (DOMAIN polygons_gdf.geometry) :
                                    Within(points.geometry[i], polygons_gdf.geometry[j])}],
             printed |-> warning]

True == [kind |-> "bool", value |-> TRUE]
False == [kind |-> "bool", value |-> FALSE]

\* gdf.to_file(path, driver=driver): the file holds the CRS and the
\* geometries of the table
to_file(gdf, path, driver) == WrittenFile(path, driver, gdf.crs, gdf.geometry)

\* save_gdf_to_shapefile reporting success whatever happened
save_gdf_to_shapefile_AlwaysTrue(gdf, path, written) ==
    [ret |-> True, printed |-> <<>>,
     files |-> IF written THEN {to_file(gdf, path, "ESRI Shapefile")} ELSE {}]

\* lines 101-107; written tells whether gdf.to_file completed
save_gdf_to_shapefile(gdf, path, written) ==
    IF written
    THEN [ret |-> True,
          printed |-> <<[msg |-> "GeoDataFrame successfully saved to", column |-> path]>>,
          files |-> {to_file(gdf, path, "ESRI Shapefile")}]
    ELSE [ret |-> False,
          printed |-> <<[msg |-> "Error saving GeoDataFrame to shapefile", column |-> path]>>,
          files |-> {}]

\* the ways a call of create_leaflet_geojson can go
ExportOutcomes == {"written", "to_crs raises", "to_file raises"}

\* create_leaflet_geojson writing the table in the CRS it has
create_leaflet_geojson_NoReprojection(gdf, path, outcome) ==
    IF outcome # "written"
    THEN [ret |-> False, printed |-> <<>>, files |-> {}]
    ELSE [ret |-> True, printed |-> <<>>, files |-> {to_file(gdf, path, "GeoJSON")}]

\* lines 120-130
create_leaflet_geojson(gdf, path, outcome) ==
    LET reproject == gdf.crs # "" /\ gdf.crs # "EPSG:4326"
        failed == [ret |-> False,
                   printed |-> <<[msg |-> "Error creating Leaflet GeoJSON", column |-> path]>>,
                   files |-> {}]
    IN IF reproject /\ outcome = "to_crs raises" THEN failed
       ELSE IF outcome = "to_file raises" THEN failed
       ELSE LET local == IF reproject THEN to_crs(gdf, "EPSG:4326") ELSE gdf
            IN [ret |-> True,
                printed |-> <<[msg |-> "GeoDataFrame successfully converted and saved to GeoJSON at",
                               column |-> path]>>,
                files |-> {to_file(local, path, "GeoJSON")}]

\* lines 57-62: gpd.read_file(path) of a file that was written
load_railway_line_shapefile(f) ==
    [ret |-> [kind |-> "gdf", crs |-> f.crs, cols |-> {"geometry"},
              rows |-> [i \in DOMAIN f.geometry |-> <<>>], geometry |-> f.geometry],
     printed |-> <<>>]

---------------------------------------------------------------------------
(* SpecGeo: the calls of the spatial processor on the station tables *)

StationColumns == {"station_name", "latitude", "longitude", "avg_delay"}

StationRow(name, lat, lon, delay) ==
    [station_name |-> Str(name), latitude |-> lat, longitude |-> lon, avg_delay |-> Num(delay)]

\* spatial_processor.py:137-143  station_data
StationRows ==
    << StationRow("Ostrava hl.n.", Num(498465), Num(182917), 5),
       StationRow("Frydlant n.O.", Num(496645), Num(183582), 8),
       StationRow("Celadna", Num(495760), Num(183615), 3),
       StationRow("Frenstat p.R.", Num(495601), Num(182140), 10),
       StationRow("Undefined", Null, Null, 1) >>

\* the most station records a station table of SpecGeo holds
MaxStations == 3

\* the station tables: some of the station records, with or without the
\* coordinate columns
StationTables ==
    {DataFrame(SelectRows(StationRows, S, 1), cols) :
        S \in {T \in SUBSET (1..Len(StationRows)) : T # {} /\ Cardinality(T) <= MaxStations},
        cols \in {StationColumns, StationColumns \ {"latitude"},
                  StationColumns \ {"longitude"}}}

\* spatial_processor.py:160-167  gdf_districts, in the CRS crs
Districts(crs) ==
    LET corner(x, y) == Transform(Point(x, y), "EPSG:4326", crs)
        box(xmin, ymin, xmax, ymax) ==
            Box(corner(xmin, ymin).x, corner(xmin, ymin).y,
                corner(xmax, ymax).x, corner(xmax, ymax).y)
    IN [kind |-> "gdf", crs |-> crs, cols |-> {"district_name", "geometry"},
        rows |-> << [district_name |-> Str("Moravian-Silesian Region West")],
                    [district_name |-> Str("Moravian-Silesian Region East")] >>,
        geometry |-> << box(180000, 495000, 185000, 500000),
                        box(185000, 495000, 190000, 500000) >>]

ShapefilePath == "data/processed/train_stations_delays.shp"
GeoJsonPath == "docs/leaflet_layers/train_stations_delays.geojson"

\* a call of the spatial processor returns
GeoReturned(fn, args, r) ==
    /\ result' = [kind |-> "call", fn |-> fn, args |-> args, ret |-> r.ret]
    /\ log' = log \o r.printed
    /\ raised' = "none"

\* main.py:174  gdf_stations = spatial_processor.create_gdf_from_points(df_stations_geo,
\*                                                       'latitude', 'longitude')
Call_create_gdf_from_points ==
    /\ pc = "stations"
    /\ \E crs \in CrsNames :
          LET r == create_gdf_from_points(df_stations, "latitude", "longitude", crs)
          IN /\ gdf_stations' = r.ret
             /\ GeoReturned("create_gdf_from_points", <<"latitude", "longitude", crs>>, r)
    /\ pc' = "created"
    /\ UNCHANGED <<run, train_df_raw, weather_df_raw, train_df, weather_df, merged_df, how, files,
                   df_stations, gdf_polygons>>

\* spatial_processor.py:179  spatial_join_data(gdf_stations, gdf_districts)
Call_spatial_join_data ==
    /\ pc = "created"
    /\ gdf_stations.kind = "gdf"
    /\ \E accepts_op \in BOOLEAN :
          GeoReturned("spatial_join_data", <<>>,
                      spatial_join_data(gdf_stations, gdf_polygons, accepts_op))
    /\ pc' = "joined"
    /\ UNCHANGED <<run, geo, train_df_raw, weather_df_raw, train_df, weather_df, merged_df, how,
                   files>>

\* main.py:177  spatial_processor.save_gdf_to_shapefile(gdf_stations, path)
Call_save_gdf_to_shapefile ==
    /\ pc = "created"
    /\ gdf_stations.kind = "gdf"
    /\ \E written \in BOOLEAN :
          LET r == save_gdf_to_shapefile(gdf_stations, ShapefilePath, written)
          IN /\ files' = files \cup r.files
             /\ GeoReturned("save_gdf_to_shapefile", <<ShapefilePath>>, r)
    /\ pc' = "saved"
    /\ UNCHANGED <<run, geo, train_df_raw, weather_df_raw, train_df, weather_df, merged_df, how>>

\* main.py:178  spatial_processor.create_leaflet_geojson(gdf_stations, path)
Call_create_leaflet_geojson ==
    /\ pc = "saved"
    /\ \E outcome \in ExportOutcomes :
          /\ outcome = "to_crs raises" => gdf_stations.crs # "EPSG:4326"
          /\ LET r == create_leaflet_geojson(gdf_stations, GeoJsonPath, outcome)
             IN /\ files' = files \cup r.files
                /\ GeoReturned("create_leaflet_geojson", <<GeoJsonPath>>, r)
    /\ pc' = "exported"
    /\ UNCHANGED <<run, geo, train_df_raw, weather_df_raw, train_df, weather_df, merged_df, how>>

\* the GeoJSON file that was written is read back
Call_load_railway_line_shapefile ==
    /\ pc = "exported"
    /\ \E f \in files :
          /\ f.path = GeoJsonPath
          /\ GeoReturned("load_railway_line_shapefile", <<f.path>>,
                         load_railway_line_shapefile(f))
    /\ pc' = "loaded"
    /\ UNCHANGED <<run, geo, train_df_raw, weather_df_raw, train_df, weather_df, merged_df, how,
                   files>>

InitGeo ==
    /\ train_df_raw = EmptyFrame
    /\ weather_df_raw = EmptyFrame
    /\ train_df = EmptyFrame
    /\ weather_df = EmptyFrame
    /\ merged_df = EmptyFrame
    /\ how = "left"
    /\ result = NoResult
    /\ files = {}
    /\ df_stations \in StationTables
    /\ gdf_stations = None
    /\ gdf_polygons \in {Districts(crs) : crs \in CrsNames}
    /\ RunNotStarted
    /\ log = <<>>
    /\ raised = "none"
    /\ pc = "stations"

NextGeo ==
    \/ Call_create_gdf_from_points
    \/ Call_spatial_join_data
    \/ Call_save_gdf_to_shapefile
    \/ Call_create_leaflet_geojson
    \/ Call_load_railway_line_shapefile

SpecGeo == InitGeo /\ [][NextGeo]_vars

---------------------------------------------------------------------------

(* The plotter (src/src/visualization/plotter.py)                          *)

\* lines 29-40: the histogram is shown unless the column is missing or not numeric
plot_delay_distribution(df, column) ==
    IF column \notin df.cols \/ df.dtype[column] \notin NumericDtypes
    THEN [printed |-> <<[msg |-> "Error: Column not found or is not numeric. Cannot plot distribution.",
                         column |-> column]>>,
          charts |-> <<>>]
    ELSE [printed |-> <<>>, charts |-> <<"Distribution of Train Delay Minutes">>]

\* plot_time_series taking the index of the table for a time column that is
\* not among its columns
plot_time_series_ReadsIndex(frame, time_col, value_col, title) ==
    IF value_col \notin frame.cols
    THEN [printed |-> <<[msg |-> "Error: Required columns not found. Cannot plot time series.",
                         column |-> time_col]>>,
          charts |-> <<>>]
    ELSE [printed |-> <<>>, charts |-> <<title>>]

\* lines 56-69, on a table aggregate_by_time returned: its columns are
\* numeric, the time buckets are its index
plot_time_series(frame, time_col, value_col, title) ==
    IF time_col \notin frame.cols \/ value_col \notin frame.cols
    THEN [printed |-> <<[msg |-> "Error: Required columns not found. Cannot plot time series.",
                         column |-> time_col]>>,
          charts |-> <<>>]
    ELSE [printed |-> <<[msg |-> "Error: Time column is not a datetime type. Cannot plot time series.",
                         column |-> time_col]>>,
          charts |-> <<>>]

\* lines 83-86: df[columns] raises KeyError for a missing column; then the
\* name np is looked up, and plotter.py imports no numpy: NameError.  Lines
\* 88-96 are never reached.
plot_correlation_heatmap(df, columns) ==
    IF columns # <<>> /\ \E k \in DOMAIN columns : columns[k] \notin df.cols
    THEN [raised |-> "KeyError"]
    ELSE [raised |-> "NameError"]

---------------------------------------------------------------------------
(* SpecPipeline: run_pipeline (src/src/main.py:29-188), step by step *)

\* main.py:47  start_date = datetime.now() - timedelta(days=3)
DaysBack == 3

\* the keys of the model: the one of the source and a key put in its place
ApiKeys == {Placeholder, "a configured key"}

---------------------------------------------------------------------------
(* The HTTP answers of the ingestion functions and response.json()         *)
(* (src/src/data_ingestion/weather_api.py).  A body is a sequence of       *)
(* tokens; the tokens of the model have no comma, so an array or an object *)
(* of a body holds at most one element.                                    *)

\* longest body of the model, in tokens (one longer body is added to them)
MaxTokens == 3

JsonTokens == {"{", "}", "[", "]", ":", "null", "5", "\"t\""}

\* the token sequences of length n
TokenSeqs(n) == UNION {[1..k -> JsonTokens] : k \in 0..n}

\* an object with one member, the shape of an answer of a weather service
ObjectBody == <<"{", "\"t\"", ":", "5", "}">>

Bodies == TokenSeqs(MaxTokens) \cup {ObjectBody}

\* the Python values json() builds
PyNone == [kind |-> "None", n |-> 0, txt |-> "", items |-> <<>>]
PyInt(k) == [kind |-> "int", n |-> k, txt |-> "", items |-> <<>>]
PyStr(t) == [kind |-> "str", n |-> 0, txt |-> t, items |-> <<>>]
PyList(l) == [kind |-> "list", n |-> 0, txt |-> "", items |-> l]
PyDict(l) == [kind |-> "dict", n |-> 0, txt |-> "", items |-> l]

\* the parser stopped: the text is not JSON
NoParse == [ok |-> FALSE, value |-> PyNone, rest |-> <<>>]

\* json.loads, one value from the front of the tokens: the value and the
\* tokens after it
RECURSIVE ParseValue(_)
ParseValue(t) ==
    IF t = <<>> THEN NoParse
    ELSE LET h == Head(t)
             after == Tail(t)
         IN CASE h = "null" -> [ok |-> TRUE, value |-> PyNone, rest |-> after]
              [] h = "5" -> [ok |-> TRUE, value |-> PyInt(5), rest |-> after]
              [] h = "\"t\"" -> [ok |-> TRUE, value |-> PyStr("t"), rest |-> after]
              [] h = "[" ->
                   IF after # <<>> /\ Head(after) = "]"
                   THEN [ok |-> TRUE, value |-> PyList(<<>>), rest |-> Tail(after)]
                   ELSE LET r == ParseValue(after)
                        IN IF r.ok /\ r.rest # <<>> /\ Head(r.rest) = "]"
                           THEN [ok |-> TRUE, value |-> PyList(<<r.value>>),
                                 rest |-> Tail(r.rest)]
                           ELSE NoParse
              [] h = "{" ->
                   IF after # <<>> /\ Head(after) = "}"
                   THEN [ok |-> TRUE, value |-> PyDict(<<>>), rest |-> Tail(after)]
                   ELSE IF Len(after) >= 2 /\ after[1] = "\"t\"" /\ after[2] = ":"
                        THEN LET r == ParseValue(Tail(Tail(after)))
                             IN IF r.ok /\ r.rest # <<>> /\ Head(r.rest) = "}"
                                THEN [ok |-> TRUE, value |-> PyDict(<<<<"t", r.value>>>>),
                                      rest |-> Tail(r.rest)]
                                ELSE NoParse
                        ELSE NoParse
              [] OTHER -> NoParse

\* weather_api.py:36  response.json(): the value of the whole text, or a
\* JSONDecodeError
json(text) ==
    LET r == ParseValue(text)
    IN IF r.ok /\ r.rest = <<>>
       THEN [raises |-> "none", value |-> r.value]
       ELSE [raises |-> "JSONDecodeError", value |-> PyNone]

\* main.py:70  `if weather_data:`, the truth value of a Python value
Truthy(v) ==
    CASE v.kind = "None" -> FALSE
      [] v.kind = "int" -> v.n # 0
      [] v.kind = "str" -> v.txt # ""
      [] OTHER -> v.items # <<>>

StatusCodes == {200, 404, 500}

\* weather_api.py:35  response.raise_for_status() raises HTTPError for a
\* status of 400 to 599
raise_for_status(status_code) == status_code >= 400 /\ status_code < 600

\* what requests.get can raise: two RequestExceptions and an exception of
\* another class
GetRaises == {"ConnectionError", "Timeout", "RuntimeError"}

\* the JSONDecodeError of the installed requests: a RequestException that
\* is a ValueError too (requests 2.27 and later), or a plain ValueError
JsonErrorClasses == {"requests.JSONDecodeError", "ValueError"}

\* requests.exceptions.RequestException and its subclasses
IsRequestException(e) ==
    e \in {"ConnectionError", "Timeout", "HTTPError", "requests.JSONDecodeError"}

\* the answers to one GET: requests.get raises, or a response arrives
Answer(raises, status_code, text, json_error) ==
    [raises |-> raises, status_code |-> status_code, text |-> text,
     json_error |-> json_error]

GetOutcomes ==
    {Answer(e, 0, <<>>, "ValueError") : e \in GetRaises}
    \cup {Answer("none", c, b, j) : c \in StatusCodes, b \in Bodies, j \in JsonErrorClasses}

\* weather_api.py:23
base_url == "http://api.weather-service.com/history"

\* fetch_weather_data retrying the GET once after an error
fetch_weather_data_Retries(o) ==
    LET failed == \/ o.raises # "none"
                  \/ raise_for_status(o.status_code)
                  \/ json(o.text).raises # "none"
    IN IF failed
       THEN [ret |-> PyNone, gets |-> <<base_url, base_url>>,
             printed |-> <<[msg |-> "Error fetching weather data:", column |-> ""]>>]
       ELSE [ret |-> json(o.text).value, gets |-> <<base_url>>, printed |-> <<>>]

\* weather_api.py:33-46  the try block and its three handlers; o is the
\* answer to the GET.  The value, the printed lines and the GETs issued.
fetch_weather_data(o) ==
    LET raising ==
            IF o.raises # "none" THEN o.raises
            ELSE IF raise_for_status(o.status_code) THEN "HTTPError"
            ELSE IF json(o.text).raises # "none" THEN o.json_error
            ELSE "none"
    IN CASE raising = "none" ->
              [ret |-> json(o.text).value, gets |-> <<base_url>>, printed |-> <<>>]
         [] raising # "none" /\ IsRequestException(raising) ->
              [ret |-> PyNone, gets |-> <<base_url>>,
               printed |-> <<[msg |-> "Error fetching weather data:", column |-> ""]>>]
         [] raising = "ValueError" ->
              [ret |-> PyNone, gets |-> <<base_url>>,
               printed |-> <<[msg |-> "Error parsing weather data (invalid JSON):",
                              column |-> ""]>>]
         [] OTHER ->
              [ret |-> PyNone, gets |-> <<base_url>>,
               printed |-> <<[msg |-> "An unexpected error occurred:", column |-> ""]>>]

\* the answers run_pipeline's loop is checked with: a transport error, an
\* error status, a text that is not JSON, an empty object and an object
PipelineOutcomes ==
    {Answer("ConnectionError", 0, <<>>, "ValueError"),
     Answer("none", 500, <<>>, "ValueError"),
     Answer("none", 200, <<"{">>, "ValueError"),
     Answer("none", 200, <<"{", "}">>, "ValueError"),
     Answer("none", 200, ObjectBody, "ValueError")}

Message(m) == [msg |-> m, column |-> ""]

Banner(k) ==
    CASE k = 1 -> "--- Phase 1: Data Acquisition ---"
      [] k = 2 -> "--- Phase 2: Data Processing and Cleaning ---"
      [] k = 3 -> "--- Phase 3: Statistical Analysis ---"
      [] k = 4 -> "--- Phase 4: Generating Visualizations ---"
      [] k = 5 -> "--- Phase 5: Generating GIS Outputs ---"

\* main.py:1-11  the imports.  statistical_model.py names Optional in the
\* annotations of lines 17, 39 and 76 and does not import it: an interpreter
\* that evaluates annotations when a function is defined raises NameError at
\* the import, one that defers them does not.
Import_modules ==
    /\ pc = "import"
    /\ \E deferred \in BOOLEAN :
          IF deferred
          THEN /\ raised' = "none"
               /\ pc' = "start"
          ELSE /\ raised' = "NameError"
               /\ pc' = "crashed"
    /\ UNCHANGED <<run, geo, train_df_raw, weather_df_raw, train_df, weather_df, merged_df, how,
                   result, files, log>>

\* main.py:33-50
Start_pipeline ==
    /\ pc = "start"
    /\ log' = log \o <<Message("--- Starting Train Delay Analysis Pipeline ---"),
                       Message(Banner(1))>>
    /\ current_date' = 0
    /\ pc' = "acquire"
    /\ UNCHANGED <<geo, train_df_raw, weather_df_raw, train_df, weather_df, merged_df, how,
                   result, files, page, api_key, requests, charts, raised>>

\* Acquire_date leaving the loop after a request that failed
Acquire_date_StopsOnFailure ==
    /\ pc = "acquire"
    /\ current_date <= DaysBack
    /\ IF api_key # Placeholder
       THEN \E o \in PipelineOutcomes :
               LET r == fetch_weather_data(o)
               IN /\ requests' = requests \o [k \in 1..Len(r.gets) |-> current_date]
                  /\ log' = log \o <<[msg |-> "Scraping for date:", column |-> ToString(current_date)]>>
                                \o r.printed
                                \o <<[msg |-> IF Truthy(r.ret)
                                              THEN "Fetched weather data for"
                                              ELSE "Failed to fetch weather data for",
                                      column |-> ToString(current_date)]>>
                  /\ current_date' = IF Truthy(r.ret) THEN current_date + 1 ELSE DaysBack + 1
       ELSE /\ requests' = requests
            /\ log' = log \o <<[msg |-> "Scraping for date:", column |-> ToString(current_date)],
                               Message("Weather API key not configured. Skipping weather data fetch.")>>
            /\ current_date' = current_date + 1
    /\ UNCHANGED <<geo, train_df_raw, weather_df_raw, train_df, weather_df, merged_df, how,
                   result, files, page, api_key, charts, raised, pc>>

\* main.py:51-77  one turn of the acquisition loop; the scraper call of
\* line 63 is commented out
Acquire_date ==
    /\ pc = "acquire"
    /\ current_date <= DaysBack
    /\ IF api_key # Placeholder
       THEN \E o \in PipelineOutcomes :
               LET r == fetch_weather_data(o)
               IN /\ requests' = requests \o [k \in 1..Len(r.gets) |-> current_date]
                  /\ log' = log \o <<[msg |-> "Scraping for date:", column |-> ToString(current_date)]>>
                                \o r.printed
                                \o <<[msg |-> IF Truthy(r.ret)
                                              THEN "Fetched weather data for"
                                              ELSE "Failed to fetch weather data for",
                                      column |-> ToString(current_date)]>>
       ELSE /\ requests' = requests
            /\ log' = log \o <<[msg |-> "Scraping for date:", column |-> ToString(current_date)],
                               Message("Weather API key not configured. Skipping weather data fetch.")>>
    /\ current_date' = current_date + 1
    /\ UNCHANGED <<geo, train_df_raw, weather_df_raw, train_df, weather_df, merged_df, how,
                   result, files, page, api_key, charts, raised, pc>>

\* Enter_phase2 leaving the acquisition loop at any date
Enter_phase2_Early ==
    /\ pc = "acquire"
    /\ train_df_raw' = DataFrame(SampleTrainRows, TrainColumns)
    /\ weather_df_raw' = DataFrame(SampleWeatherRows, WeatherColumns)
    /\ train_df' = train_df_raw'
    /\ weather_df' = weather_df_raw'
    /\ log' = log \o <<Message(Banner(2))>>
    /\ pc' = "acquired"
    /\ UNCHANGED <<run, geo, merged_df, how, result, files, raised>>

\* Enter_phase2 building the weather table from what the acquisition got: a
\* date whose request failed leaves the table without rows
Enter_phase2_FromAcquisition ==
    /\ pc = "acquire"
    /\ current_date > DaysBack
    /\ train_df_raw' = DataFrame(SampleTrainRows, TrainColumns)
    /\ weather_df_raw' =
          IF \E k \in DOMAIN log : log[k].msg = "Failed to fetch weather data for"
          THEN DataFrame(<<>>, WeatherColumns)
          ELSE DataFrame(SampleWeatherRows, WeatherColumns)
    /\ train_df' = train_df_raw'
    /\ weather_df' = weather_df_raw'
    /\ log' = log \o <<Message(Banner(2))>>
    /\ pc' = "acquired"
    /\ UNCHANGED <<run, geo, merged_df, how, result, files, raised>>

\* main.py:51, 79-103  the loop is over: the sample tables are built, Phase 2
\* starts and the two cleaners are handed copies
Enter_phase2 ==
    /\ pc = "acquire"
    /\ current_date > DaysBack
    /\ train_df_raw' = DataFrame(SampleTrainRows, TrainColumns)
    /\ weather_df_raw' = DataFrame(SampleWeatherRows, WeatherColumns)
    /\ train_df' = train_df_raw'
    /\ weather_df' = weather_df_raw'
    /\ log' = log \o <<Message(Banner(2))>>
    /\ pc' = "acquired"
    /\ UNCHANGED <<run, geo, merged_df, how, result, files, raised>>

\* main.py:105  merged_df = data_cleaner.merge_data(train_df_cleaned, weather_df_cleaned,
\*                                                  on_column='date'), how left at 'left'
Merge_cleaned ==
    /\ pc = "weather_cleaned"
    /\ LET r == merge_data(train_df, weather_df, "date", "left")
       IN /\ merged_df' = r.df
          /\ log' = log \o r.printed
    /\ how' = "left"
    /\ raised' = "none"
    /\ pc' = "merged"
    /\ UNCHANGED <<run, geo, train_df_raw, weather_df_raw, train_df, weather_df, result, files>>

\* main.py:107-110  to_csv raises OSError (the directory data/processed is
\* missing, the file cannot be written); nothing catches it
Save_merged_raises ==
    /\ pc = "merged"
    /\ merged_df.rows # <<>> /\ merged_df.cols # {}
    /\ log' = log \o <<Message("Merged data head:")>>
    /\ raised' = "OSError"
    /\ pc' = "crashed"
    /\ UNCHANGED <<run, geo, train_df_raw, weather_df_raw, train_df, weather_df, merged_df, how,
                   result, files>>

\* main.py:117-121
Phase3_describe ==
    /\ pc = "analysis"
    /\ LET r == get_descriptive_statistics(merged_df, "delay_minutes")
       IN /\ result' = [kind |-> "call", fn |-> "get_descriptive_statistics",
                        args |-> <<"delay_minutes">>, ret |-> r.ret]
          /\ log' = log \o <<Message(Banner(3)),
                             Message("Descriptive statistics for 'delay_minutes':")>>
                        \o r.printed
                        \o (IF r.ret.kind # "None" THEN <<Message("print(delay_stats)")>> ELSE <<>>)
    /\ pc' = "described"
    /\ UNCHANGED <<run, geo, train_df_raw, weather_df_raw, train_df, weather_df, merged_df, how,
                   files, raised>>

\* main.py:123-127
Phase3_t_test ==
    /\ pc = "described"
    /\ IF "weather_condition" \in merged_df.cols
       THEN LET with_snowy ==
                  SetColumn(merged_df, "is_snowy",
                            [i \in 1..Len(merged_df.rows) |->
                               IF merged_df.rows[i]["weather_condition"] = Str("snowy")
                               THEN Num(1) ELSE Num(0)], "int64")
                r == perform_t_test(with_snowy, "is_snowy", "delay_minutes", Num(1), Num(0))
            IN /\ merged_df' = with_snowy
               /\ result' = [kind |-> "call", fn |-> "perform_t_test",
                             args |-> <<"is_snowy", "delay_minutes">>, ret |-> r.ret]
               /\ log' = log \o r.printed
                             \o (IF r.ret.kind # "None"
                                 THEN <<Message("T-test (Snowy vs. Non-Snowy)")>> ELSE <<>>)
       ELSE UNCHANGED <<merged_df, result, log>>
    /\ pc' = "tested"
    /\ UNCHANGED <<run, geo, train_df_raw, weather_df_raw, train_df, weather_df, how, files,
                   raised>>

\* main.py:129-132
Phase3_correlation ==
    /\ pc = "tested"
    /\ IF "temperature" \in merged_df.cols
       THEN LET r == calculate_correlation(merged_df, "delay_minutes", "temperature")
            IN /\ result' = [kind |-> "call", fn |-> "calculate_correlation",
                             args |-> <<"delay_minutes", "temperature">>, ret |-> r.ret]
               /\ log' = log \o r.printed
                             \o (IF r.ret.kind # "None"
                                 THEN <<Message("Correlation (Delay vs. Temperature)")>>
                                 ELSE <<>>)
       ELSE UNCHANGED <<result, log>>
    /\ pc' = "correlated"
    /\ UNCHANGED <<run, geo, train_df_raw, weather_df_raw, train_df, weather_df, merged_df, how,
                   files, raised>>

\* main.py:135-137
Phase4_distribution ==
    /\ pc = "correlated"
    /\ LET r == plot_delay_distribution(merged_df, "delay_minutes")
       IN /\ log' = log \o <<Message(Banner(4))>> \o r.printed
          /\ charts' = charts \o r.charts
    /\ pc' = "distribution_plotted"
    /\ UNCHANGED <<geo, train_df_raw, weather_df_raw, train_df, weather_df, merged_df, how,
                   result, files, page, api_key, current_date, requests, raised>>

\* main.py:139-142
Phase4_time_series ==
    /\ pc = "distribution_plotted"
    /\ IF "scheduled_time" \in merged_df.cols
       THEN LET a == aggregate_by_time(merged_df, "scheduled_time", "delay_minutes", "D", "mean")
                p == IF a.ret.rows # <<>>
                     THEN plot_time_series(a.ret, "scheduled_time", "delay_minutes",
                                           "Daily Average Train Delay Minutes")
                     ELSE [printed |-> <<>>, charts |-> <<>>]
            IN /\ result' = [kind |-> "call", fn |-> "aggregate_by_time",
                             args |-> <<"scheduled_time", "delay_minutes">>, ret |-> a.ret]
               /\ log' = log \o a.printed \o p.printed
               /\ charts' = charts \o p.charts
       ELSE UNCHANGED <<result, log, charts>>
    /\ pc' = "series_plotted"
    /\ UNCHANGED <<geo, train_df_raw, weather_df_raw, train_df, weather_df, merged_df, how,
                   files, page, api_key, current_date, requests, raised>>

\* main.py:144-145  the exception of plot_correlation_heatmap is not caught:
\* run_pipeline ends here, lines 147-188 are not executed
Phase4_heatmap ==
    /\ pc = "series_plotted"
    /\ raised' = plot_correlation_heatmap(merged_df,
                                          <<"delay_minutes", "temperature", "humidity">>).raised
    /\ pc' = "crashed"
    /\ UNCHANGED <<run, geo, train_df_raw, weather_df_raw, train_df, weather_df, merged_df, how,
                   result, files, log>>

InitPipeline ==
    /\ train_df_raw = EmptyFrame
    /\ weather_df_raw = EmptyFrame
    /\ train_df = EmptyFrame
    /\ weather_df = EmptyFrame
    /\ merged_df = EmptyFrame
    /\ how = "left"
    /\ result = NoResult
    /\ files = {}
    /\ df_stations = EmptyFrame
    /\ gdf_stations = None
    /\ gdf_polygons = None
    /\ api_key \in ApiKeys
    /\ current_date = 0
    /\ requests = <<>>
    /\ charts = <<>>
    /\ page = "none"
    /\ log = <<>>
    /\ raised = "none"
    /\ pc = "import"

NextPipeline ==
    \/ Import_modules
    \/ Start_pipeline
    \/ Acquire_date
    \/ Enter_phase2
    \/ Call_clean_train_delays
    \/ Call_clean_weather_data
    \/ Merge_cleaned
    \/ Save_merged
    \/ Save_merged_raises
    \/ Phase3_describe
    \/ Phase3_t_test
    \/ Phase3_correlation
    \/ Phase4_distribution
    \/ Phase4_time_series
    \/ Phase4_heatmap

SpecPipeline == InitPipeline /\ [][NextPipeline]_vars

---------------------------------------------------------------------------

\* SpecVisualize: the first two steps of Visualize (main.py:135-142) after
\* Phases 2 and 3 of a run on a sample table with some records left out
InitVisualize ==
    /\ train_df_raw \in SampleTrainTables
    /\ weather_df_raw \in SampleWeatherTables
    /\ train_df = clean_train_delays(train_df_raw).df
    /\ weather_df = clean_weather_data(weather_df_raw).df
    /\ merged_df = merge_data(train_df, weather_df, "date", "left").df
    /\ merged_df.rows # <<>>
    /\ files = {WrittenCsv("data/processed/final_merged_data.csv")}
    /\ how = "left"
    /\ result = NoResult
    /\ df_stations = EmptyFrame
    /\ gdf_stations = None
    /\ gdf_polygons = None
    /\ RunNotStarted
    /\ log = <<>>
    /\ raised = "none"
    /\ pc = "correlated"

NextVisualize ==
    \/ Phase4_distribution
    \/ Phase4_time_series

SpecVisualize == InitVisualize /\ [][NextVisualize]_vars

\* The run goes on while a step of it can be taken: the interpreter executes
\* run_pipeline statement after statement, and the one blocking call of the
\* loop, requests.get (weather_api.py:34), is taken to end with an answer or
\* an exception.
SpecPipelineFair ==
    /\ InitPipeline
    /\ [][NextPipeline]_vars
    /\ WF_vars(Acquire_date)
    /\ WF_vars(Enter_phase2)

(* SpecIngest: one call of fetch_weather_data or of scrape_idos_delays     *)
(* (src/src/data_ingestion/scraper.py) with an answer of the network.      *)
(* A page is what BeautifulSoup finds in response.text: whether a table of *)
(* another class comes first, and the table of class 'delays-table' (None  *)
(* when the page has none) with its thead and tbody (None when missing),   *)
(* the texts of the th cells and, row by row, the texts of the td cells.   *)

\* most body rows of a page
MaxBodyRows == 2

\* most cells of a header and of a body row
MaxCells == 2

HeaderTexts == {"train", " delay "}

\* the text of the td cell of a column
CellText(i) ==
    CASE i = 1 -> "R123"
      [] i = 2 -> " 5 "
      [] OTHER -> "Ostrava-Frenstat"

\* the body rows of the model: a row of n cells holds the texts of the
\* first n columns
BodyRows == {[i \in 1..n |-> CellText(i)] : n \in 0..MaxCells}

\* scraper.py:37, 39  get_text(strip=True): the text without the white
\* space around it
Strip(t) ==
    CASE t = " delay " -> "delay"
      [] t = " 5 " -> "5"
      [] OTHER -> t

\* the th texts of a thead, or None
Theads == {None} \cup {[kind |-> "thead", th |-> h] : h \in SeqsUpTo(HeaderTexts, MaxCells)}

\* the rows of a tbody, or None
Tbodies ==
    {None} \cup {[kind |-> "tbody", tr |-> rows] :
                    rows \in SeqsUpTo(BodyRows, MaxBodyRows)}

Pages ==
    {[other_table |-> ot, table |-> None] : ot \in BOOLEAN}
    \cup {[other_table |-> ot, table |-> [kind |-> "table", thead |-> h, tbody |-> b]] :
             ot \in BOOLEAN, h \in Theads, b \in Tbodies}

\* scraper.py:35  soup.find('table', class_='delays-table'): the first table
\* of that class, tables of other classes are passed over
find_table(soup) == soup.table

\* scraper.py:41  dict(zip(headers, values)): a header that occurs twice
\* keeps the value of its last cell
Dict(headers, values) ==
    [h \in {headers[i] : i \in DOMAIN headers} |->
        LET last == CHOOSE i \in DOMAIN headers :
                       /\ headers[i] = h
                       /\ \A j \in DOMAIN headers : headers[j] = h => j <= i
        IN values[last]]

\* the answers to the GET of the scraper: requests.get raises, an error
\* status, or a page; get_text of the body row `fails_at` raises
\* RecursionError (0: of none)
PageAnswer(raises, status_code, soup, fails_at) ==
    [raises |-> raises, status_code |-> status_code, page |-> soup, fails_at |-> fails_at]

NoPage == [other_table |-> FALSE, table |-> None]

ScrapeOutcomes ==
    {PageAnswer(e, 0, NoPage, 0) : e \in GetRaises}
    \cup {PageAnswer("none", c, NoPage, 0) : c \in StatusCodes \ {200}}
    \cup {PageAnswer("none", 200, p, f) : p \in Pages, f \in 0..MaxBodyRows}

\* main.py:16, scraper.py:56
IDOS_BASE_URL == "https://www.idos.cz/vlaky/spojeni/"

\* scraper.py:37-41  the headers and the loop over the body rows of a table
\* that has a thead and a tbody: the records collected after `upto` rows
Collected(table, upto) ==
    LET headers == [i \in DOMAIN table.thead.th |-> Strip(table.thead.th[i])]
        rows == SubSeq(table.tbody.tr, 1, upto)
        kept == SelectSeq(rows, LAMBDA r : Len(r) = Len(headers))
    IN [k \in DOMAIN kept |->
          Dict(headers, [i \in DOMAIN kept[k] |-> Strip(kept[k][i])])]

\* scrape_idos_delays handing back the rows collected before an exception
scrape_idos_delays_KeepsParsed(o) ==
    LET table == find_table(o.page)
        raising ==
            IF o.raises # "none" THEN o.raises
            ELSE IF raise_for_status(o.status_code) THEN "HTTPError"
            ELSE IF table.kind = "None" THEN "none"
            ELSE IF table.thead.kind = "None" THEN "AttributeError"
            ELSE IF table.tbody.kind = "None" THEN "AttributeError"
            ELSE IF o.fails_at \in 1..Len(table.tbody.tr) THEN "RecursionError"
            ELSE "none"
    IN CASE raising = "none" /\ table.kind = "None" ->
              [ret |-> <<>>, gets |-> <<IDOS_BASE_URL>>,
               printed |-> <<[msg |-> "No table with class 'delays-table' found. Adjust selectors as needed.",
                              column |-> ""]>>]
         [] raising = "none" /\ table.kind # "None" ->
              [ret |-> Collected(table, Len(table.tbody.tr)), gets |-> <<IDOS_BASE_URL>>,
               printed |-> <<>>]
         [] raising # "none" /\ IsRequestException(raising) ->
              [ret |-> <<>>, gets |-> <<IDOS_BASE_URL>>,
               printed |-> <<[msg |-> "Error during web scraping:", column |-> ""]>>]
         [] OTHER ->
              [ret |-> IF raising = "RecursionError"
                       THEN Collected(table, o.fails_at - 1) ELSE <<>>,
               gets |-> <<IDOS_BASE_URL>>,
               printed |-> <<[msg |-> "An unexpected error occurred:", column |-> ""]>>]

\* scraper.py:18-51  the try block and its two handlers; o is the answer to
\* the GET.  The list returned, the printed lines and the GETs issued.
scrape_idos_delays(o) ==
    LET table == find_table(o.page)
        raising ==
            IF o.raises # "none" THEN o.raises
            ELSE IF raise_for_status(o.status_code) THEN "HTTPError"
            ELSE IF table.kind = "None" THEN "none"
            ELSE IF table.thead.kind = "None" THEN "AttributeError"
            ELSE IF table.tbody.kind = "None" THEN "AttributeError"
            ELSE IF o.fails_at \in 1..Len(table.tbody.tr) THEN "RecursionError"
            ELSE "none"
    IN CASE raising = "none" /\ table.kind = "None" ->
              [ret |-> <<>>, gets |-> <<IDOS_BASE_URL>>,
               printed |-> <<[msg |-> "No table with class 'delays-table' found. Adjust selectors as needed.",
                              column |-> ""]>>]
         [] raising = "none" /\ table.kind # "None" ->
              [ret |-> Collected(table, Len(table.tbody.tr)), gets |-> <<IDOS_BASE_URL>>,
               printed |-> <<>>]
         [] raising # "none" /\ IsRequestException(raising) ->
              [ret |-> <<>>, gets |-> <<IDOS_BASE_URL>>,
               printed |-> <<[msg |-> "Error during web scraping:", column |-> ""]>>]
         [] OTHER ->
              [ret |-> <<>>, gets |-> <<IDOS_BASE_URL>>,
               printed |-> <<[msg |-> "An unexpected error occurred:", column |-> ""]>>]

\* a call of an ingestion function returns: its value is kept with the name
\* of the function and the answer it got, its GETs are added to the requests
Ingested(fn, o, r) ==
    /\ result' = [kind |-> "call", fn |-> fn, args |-> o, ret |-> r.ret]
    /\ requests' = requests \o r.gets
    /\ log' = log \o r.printed
    /\ raised' = "none"
    /\ pc' = "returned"
    /\ UNCHANGED <<geo, train_df_raw, weather_df_raw, train_df, weather_df, merged_df, how,
                   files, page, api_key, current_date, charts>>

\* weather_api.py:65  fetch_weather_data(WEATHER_API_KEY, ostrava_lat, ostrava_lon, target_date)
Call_fetch_weather_data ==
    /\ pc = "call"
    /\ \E o \in GetOutcomes : Ingested("fetch_weather_data", o, fetch_weather_data(o))

\* scraper.py:68  scrape_idos_delays(idos_url, search_params)
Call_scrape_idos_delays ==
    /\ pc = "call"
    /\ \E o \in ScrapeOutcomes : Ingested("scrape_idos_delays", o, scrape_idos_delays(o))

InitIngest ==
    /\ train_df_raw = EmptyFrame
    /\ train_df = EmptyFrame
    /\ weather_df_raw = EmptyFrame
    /\ weather_df = EmptyFrame
    /\ merged_df = EmptyFrame
    /\ how = "left"
    /\ result = NoResult
    /\ files = {}
    /\ df_stations = EmptyFrame
    /\ gdf_stations = None
    /\ gdf_polygons = None
    /\ RunNotStarted
    /\ log = <<>>
    /\ raised = "none"
    /\ pc = "call"

NextIngest ==
    \/ Call_fetch_weather_data
    \/ Call_scrape_idos_delays

SpecIngest == InitIngest /\ [][NextIngest]_vars

---------------------------------------------------------------------------

(* The station delays of the GIS outputs: run_pipeline (main.py:153-172)   *)
(* and the dashboard (app.py:179-185).  An average is a number cell in     *)
(* hundredths of a minute.                                                 *)

FrenstatRoute == "Ostrava-Frenstat"
FrydlantRoute == "Ostrava-Frydlant"

\* the route texts of the model: the two routes of the sample data, a text
\* that holds the first of them with more around it, and a text that holds
\* neither
RouteTexts == {FrenstatRoute, FrydlantRoute, "Ostrava-Frenstat p.R. (express)", "Frydek-Mistek"}

\* app.py:180  Series.str.contains(pat, na=False): the cell is a text with
\* pat somewhere in it (pat holds no regular-expression operator)
str_contains(cell, pat) ==
    /\ cell.tag = "str"
    /\ \/ cell.txt = pat
       \/ pat = FrenstatRoute /\ cell.txt = "Ostrava-Frenstat p.R. (express)"

\* Series.mean() of delay_minutes over the rows at positions P: nulls are
\* skipped, NaN without a number
MeanDelay(df, P) ==
    LET xs == ValuesAt(df, "delay_minutes", P, 1)
    IN IF xs = <<>> THEN Null ELSE Num((SumOf(xs) * 100) \div Len(xs))

\* main.py:153-158, app.py:179-183  the four stations, coordinates in
\* ten-thousandths of a degree
StationPoints ==
    << [station_name |-> Str("Ostrava hl.n."), latitude |-> Num(498465), longitude |-> Num(182917)],
       [station_name |-> Str("Frydlant n.O."), latitude |-> Num(496645), longitude |-> Num(183582)],
       [station_name |-> Str("Celadna"), latitude |-> Num(495760), longitude |-> Num(183615)],
       [station_name |-> Str("Frenstat p.R."), latitude |-> Num(495601), longitude |-> Num(182140)] >>

\* main.py:166-169  the route of a station name: "Ostrava", "Frenstat" or
\* "Celadna" in the name, else "Frydlant" in the name
RouteOfStation(station_name) ==
    CASE station_name \in {"Ostrava hl.n.", "Celadna", "Frenstat p.R."} -> FrenstatRoute
      [] station_name = "Frydlant n.O." -> FrydlantRoute
      [] OTHER -> ""

\* main.py:162, 165-170  get_avg_delay_for_station over
\* merged_df.groupby('route')['delay_minutes'].mean(): the mean of the rows
\* whose route equals the route of the station, 0 without such a row
get_avg_delay_for_station(station_name, df) ==
    LET route == RouteOfStation(station_name)
        P == {i \in 1..Len(df.rows) : df.rows[i]["route"] = Str(route)}
    IN IF route = "" \/ P = {} THEN Num(0) ELSE MeanDelay(df, P)

\* main.py:159, 172  df_stations_geo with its avg_delay column
OrchestratorStations(df) ==
    DataFrame([k \in DOMAIN StationPoints |->
                  [c \in StationColumns |->
                      IF c = "avg_delay"
                      THEN get_avg_delay_for_station(StationPoints[k]["station_name"].txt, df)
                      ELSE StationPoints[k][c]]],
              StationColumns)

\* app.py:180-183  the avg_delay of a station_data record: the mean of the
\* rows whose route contains the route text, 0 when no row does
DashboardAvgDelay(df, pat) ==
    LET P == {i \in 1..Len(df.rows) : str_contains(df.rows[i]["route"], pat)}
    IN IF P = {} THEN Num(0) ELSE MeanDelay(df, P)

\* app.py:180  df['route'] raises KeyError without the column, and the .str
\* accessor raises AttributeError on a column that is not of texts
StationsRaise(df) ==
    IF "route" \notin df.cols \/ "delay_minutes" \notin df.cols THEN "KeyError"
    ELSE IF df.dtype["route"] # "object" THEN "AttributeError"
    ELSE "none"

\* app.py:179-185  df_stations
DashboardStations(df) ==
    DataFrame([k \in DOMAIN StationPoints |->
                  [c \in StationColumns |->
                      IF c = "avg_delay"
                      THEN DashboardAvgDelay(df, IF k = 2 THEN FrydlantRoute ELSE FrenstatRoute)
                      ELSE StationPoints[k][c]]],
              StationColumns)

---------------------------------------------------------------------------
(* SpecStations: the station delays of run_pipeline and of the dashboard   *)
(* on merged tables of a few rows; of a merged table only route and        *)
(* delay_minutes are read.                                                 *)

\* most rows of a merged table of SpecStations
MaxRouteRows == 2

\* the delays of the rows, in minutes
RouteDelays == {0, 5, 10}

RouteRows ==
    {[route |-> r, delay_minutes |-> Num(d)] :
        r \in {Str(t) : t \in RouteTexts} \cup {Null}, d \in RouteDelays}

RouteTables ==
    {DataFrame(rows, {"route", "delay_minutes"}) : rows \in SeqsUpTo(RouteRows, MaxRouteRows)}

\* main.py:153-172
Orchestrator_stations ==
    /\ pc = "merged"
    /\ df_stations' = OrchestratorStations(merged_df)
    /\ raised' = "none"
    /\ pc' = "orchestrator_assigned"
    /\ UNCHANGED <<run, gdf_stations, gdf_polygons, train_df_raw, weather_df_raw, train_df,
                   weather_df, merged_df, how, result, files, log>>

\* app.py:179-185
Dashboard_stations ==
    /\ pc = "merged"
    /\ IF StationsRaise(merged_df) # "none"
       THEN /\ raised' = StationsRaise(merged_df)
            /\ pc' = "crashed"
            /\ UNCHANGED df_stations
       ELSE /\ df_stations' = DashboardStations(merged_df)
            /\ raised' = "none"
            /\ pc' = "dashboard_assigned"
    /\ UNCHANGED <<run, gdf_stations, gdf_polygons, train_df_raw, weather_df_raw, train_df,
                   weather_df, merged_df, how, result, files, log>>

InitStations ==
    /\ train_df_raw = EmptyFrame
    /\ train_df = EmptyFrame
    /\ weather_df_raw = EmptyFrame
    /\ weather_df = EmptyFrame
    /\ merged_df \in RouteTables
    /\ how = "left"
    /\ result = NoResult
    /\ files = {}
    /\ df_stations = EmptyFrame
    /\ gdf_stations = None
    /\ gdf_polygons = None
    /\ RunNotStarted
    /\ log = <<>>
    /\ raised = "none"
    /\ pc = "merged"

NextStations ==
    \/ Orchestrator_stations
    \/ Dashboard_stations

SpecStations == InitStations /\ [][NextStations]_vars

---------------------------------------------------------------------------

(* SpecDashboard: one render of the dashboard (src/src/streamlit_app/app.py) *)
(* on the dummy tables of load_and_process_data or on tables holding the     *)
(* first records of them.  The log holds the elements put on the page.       *)

Pages4 == {"Data Overview", "Analysis & Visualizations", "GIS Outputs", "Configuration"}

\* app.py:43-63  the tables of load_and_process_data: the dummy records, or
\* the first records of them; pd.DataFrame of no record has no column
DummyTrainTables ==
    {IF k = 0 THEN EmptyFrame ELSE DataFrame(SubSeq(SampleTrainRows, 1, k), TrainColumns) :
        k \in 0..Len(SampleTrainRows)}

DummyWeatherTables ==
    {IF k = 0 THEN EmptyFrame ELSE DataFrame(SubSeq(SampleWeatherRows, 1, k), WeatherColumns) :
        k \in 0..Len(SampleWeatherRows)}

\* app.py:219-234  main() up to the page test; the Configuration page is
\* drawn at once
Render_main ==
    /\ pc = "render"
    /\ \E p \in Pages4 :
          /\ page' = p
          /\ IF p = "Configuration"
             THEN /\ log' = log \o <<Message("Train Delay Analysis on Line 323"),
                                     Message("Configuration"),
                                     Message("Weather API Key")>>
                  /\ pc' = "rendered"
             ELSE /\ log' = log \o <<Message("Train Delay Analysis on Line 323")>>
                  /\ pc' = "load"
    /\ UNCHANGED <<geo, train_df_raw, weather_df_raw, train_df, weather_df, merged_df, how,
                   result, files, api_key, current_date, requests, charts, raised>>

\* Load_tables run on the Configuration page too
Load_tables_OnEveryPage ==
    /\ pc \in {"load", "rendered"}
    /\ merged_df = EmptyFrame
    /\ \E t \in DummyTrainTables, w \in DummyWeatherTables :
          /\ train_df_raw' = t
          /\ weather_df_raw' = w
          /\ train_df' = t
          /\ weather_df' = w
    /\ log' = log \o <<Message("Data Acquisition & Processing (Dummy Data)")>>
    /\ pc' = "acquired"
    /\ UNCHANGED <<run, geo, merged_df, how, result, files, raised>>

\* app.py:238, 39-71  load_and_process_data is entered: the tables are built
\* and copies are handed to the cleaners
Load_tables ==
    /\ pc = "load"
    /\ \E t \in DummyTrainTables, w \in DummyWeatherTables :
          /\ train_df_raw' = t
          /\ weather_df_raw' = w
          /\ train_df' = t
          /\ weather_df' = w
    /\ log' = log \o <<Message("Data Acquisition & Processing (Dummy Data)")>>
    /\ pc' = "acquired"
    /\ UNCHANGED <<run, geo, merged_df, how, result, files, raised>>

\* app.py:79-80  load_and_process_data returns the merged table
Load_returns ==
    /\ pc = "merged"
    /\ log' = log \o <<Message("Data loaded, cleaned, and merged!")>>
    /\ pc' = "loaded"
    /\ UNCHANGED <<run, geo, train_df_raw, weather_df_raw, train_df, weather_df, merged_df, how,
                   result, files, raised>>

\* app.py:240  processed_data is not None and not processed_data.empty
HasData == merged_df.rows # <<>> /\ merged_df.cols # {}

\* app.py:241-245
View_data_overview ==
    /\ pc = "loaded" /\ HasData /\ page = "Data Overview"
    /\ log' = log \o <<Message("Processed and Merged Data Overview"),
                       [msg |-> "Total records:", column |-> ToString(Len(merged_df.rows))]>>
    /\ pc' = "rendered"
    /\ UNCHANGED <<run, geo, train_df_raw, weather_df_raw, train_df, weather_df, merged_df, how,
                   result, files, raised>>

\* app.py:132-136  the columns of the heatmap
HeatmapColumns(df) ==
    {c \in {"delay_minutes", "temperature", "humidity", "wind_speed", "precipitation"} :
        c \in df.cols /\ df.dtype[c] \in NumericDtypes}

\* app.py:100-153  the charts of the analysis view, in page order
AnalysisCharts(df) ==
    <<"Distribution of Train Delay Minutes">>
    \o (IF /\ "scheduled_time" \in df.cols
           /\ df.dtype["scheduled_time"] = "datetime64"
           /\ aggregate_by_time(df, "scheduled_time", "delay_minutes", "D", "mean").ret.rows # <<>>
        THEN <<"Daily Average Train Delay Minutes">> ELSE <<>>)
    \o (IF Cardinality(HeatmapColumns(df)) > 1 THEN <<"Correlation Heatmap">> ELSE <<>>)
    \o (IF "weather_condition" \in df.cols
        THEN <<"Average Delay by Weather Condition">> ELSE <<>>)

\* app.py:247-248, 82-169  run_analysis_and_visualizations(processed_data)
View_analysis ==
    /\ pc = "loaded" /\ HasData /\ page = "Analysis & Visualizations"
    /\ IF "delay_minutes" \notin merged_df.cols
       THEN /\ log' = log \o <<Message("Statistical Analysis & Visualizations"),
                               Message("Cannot perform analysis: 'delay_minutes' column is missing or empty.")>>
            /\ UNCHANGED <<merged_df, result, charts>>
       ELSE /\ charts' = charts \o AnalysisCharts(merged_df)
            /\ IF "weather_condition" \in merged_df.cols
               THEN LET with_snowy ==
                          SetColumn(merged_df, "is_snowy",
                                    [i \in 1..Len(merged_df.rows) |->
                                       IF merged_df.rows[i]["weather_condition"] = Str("snowy")
                                       THEN Num(1) ELSE Num(0)], "int64")
                        r == perform_t_test(with_snowy, "is_snowy", "delay_minutes",
                                            Num(1), Num(0))
                    IN /\ merged_df' = with_snowy
                       /\ result' = [kind |-> "call", fn |-> "perform_t_test",
                                     args |-> <<"is_snowy", "delay_minutes">>, ret |-> r.ret]
                       /\ log' = log \o <<Message("Statistical Analysis & Visualizations")>>
                                     \o get_descriptive_statistics(merged_df, "delay_minutes").printed
                                     \o r.printed
               ELSE /\ log' = log \o <<Message("Statistical Analysis & Visualizations")>>
                                  \o get_descriptive_statistics(merged_df, "delay_minutes").printed
                    /\ UNCHANGED <<merged_df, result>>
    /\ pc' = "rendered"
    /\ UNCHANGED <<geo, train_df_raw, weather_df_raw, train_df, weather_df, how, files,
                   api_key, current_date, requests, page, raised>>

\* app.py:250-251, 172-216  run_gis_outputs(processed_data)
View_gis ==
    /\ pc = "loaded" /\ HasData /\ page = "GIS Outputs"
    /\ IF StationsRaise(merged_df) # "none"
       THEN /\ raised' = StationsRaise(merged_df)
            /\ log' = log \o <<Message("GIS Outputs")>>
            /\ pc' = "crashed"
            /\ UNCHANGED <<geo, result>>
       ELSE \E accepts_op \in BOOLEAN :
               LET created == create_gdf_from_points(DashboardStations(merged_df),
                                                     "latitude", "longitude", "EPSG:4326")
                   joined == spatial_join_data(created.ret, Districts("EPSG:4326"), accepts_op)
               IN /\ df_stations' = DashboardStations(merged_df)
                  /\ gdf_stations' = created.ret
                  /\ gdf_polygons' = Districts("EPSG:4326")
                  /\ result' = [kind |-> "call", fn |-> "spatial_join_data",
                                args |-> <<>>, ret |-> joined.ret]
                  /\ log' = log \o <<Message("GIS Outputs")>> \o created.printed \o joined.printed
                  /\ raised' = "none"
                  /\ pc' = "rendered"
    /\ UNCHANGED <<run, train_df_raw, weather_df_raw, train_df, weather_df, merged_df, how, files>>

\* app.py:252-253  no view, the error banner
View_no_data ==
    /\ pc = "loaded" /\ ~ HasData
    /\ log' = log \o <<Message("No data available for analysis. Please check data loading steps.")>>
    /\ pc' = "rendered"
    /\ UNCHANGED <<run, geo, train_df_raw, weather_df_raw, train_df, weather_df, merged_df, how,
                   result, files, raised>>

InitDashboard ==
    /\ train_df_raw = EmptyFrame
    /\ train_df = EmptyFrame
    /\ weather_df_raw = EmptyFrame
    /\ weather_df = EmptyFrame
    /\ merged_df = EmptyFrame
    /\ how = "left"
    /\ result = NoResult
    /\ files = {}
    /\ df_stations = EmptyFrame
    /\ gdf_stations = None
    /\ gdf_polygons = None
    /\ RunNotStarted
    /\ log = <<>>
    /\ raised = "none"
    /\ pc = "render"

NextDashboard ==
    \/ Render_main
    \/ Load_tables
    \/ Call_clean_train_delays
    \/ Call_clean_weather_data
    \/ Merge_cleaned
    \/ Load_returns
    \/ View_data_overview
    \/ View_analysis
    \/ View_gis
    \/ View_no_data

SpecDashboard == InitDashboard /\ [][NextDashboard]_vars

---------------------------------------------------------------------------

(* Properties of clean_train_delays, checked under SpecTrain *)

RowsOf(df) == 1..Len(df.rows)

\* a cell pd.to_numeric can read as a number, and the number
Parsable(c) == c.tag = "num" \/ (c.tag = "str" /\ c.txt \in NumeralTexts)
ParsedValue(c) == IF c.tag = "num" THEN c.n ELSE NumeralValue(c.txt)

\* the delay a raw cell must have after cleaning
CleanDelayOf(c) == IF Parsable(c) THEN ParsedValue(c) ELSE 0

\* row out of the cleaned table comes from row raw of the raw table, as far
\* as the columns the cleaner does not touch and delay_minutes tell
SameRecord(raw, out) ==
    /\ out["train_id"] = raw["train_id"]
    /\ out["route"] = raw["route"]
    /\ out["delay_minutes"] = Num(CleanDelayOf(raw["delay_minutes"]))

\* C1: after clean_train_delays on a table with a delay_minutes column, every
\* row has a non-null number in delay_minutes: 0 where the raw value was null
\* or unparsable, the parsed value otherwise.
C1_DelayNonNull ==
    (pc = "train_cleaned" /\ "delay_minutes" \in train_df_raw.cols) =>
        /\ "delay_minutes" \in train_df.cols
        /\ train_df.dtype["delay_minutes"] \in NumericDtypes
        /\ \A j \in RowsOf(train_df) : train_df.rows[j]["delay_minutes"].tag = "num"
        /\ \A i \in RowsOf(train_df_raw) : \E j \in RowsOf(train_df) :
              SameRecord(train_df_raw.rows[i], train_df.rows[j])
        /\ \A j \in RowsOf(train_df) : \E i \in RowsOf(train_df_raw) :
              SameRecord(train_df_raw.rows[i], train_df.rows[j])

\* a cleaned table whose raw table had a null, an unparsable and a parsable
\* text in delay_minutes
C1_Witness ==
    /\ pc = "train_cleaned"
    /\ "delay_minutes" \in train_df_raw.cols
    /\ \E i \in RowsOf(train_df_raw) : train_df_raw.rows[i]["delay_minutes"] = Null
    /\ \E i \in RowsOf(train_df_raw) : train_df_raw.rows[i]["delay_minutes"] = Str("n/a")
    /\ \E i \in RowsOf(train_df_raw) : train_df_raw.rows[i]["delay_minutes"] = Str("05")
    /\ \E j \in RowsOf(train_df) : train_df.rows[j]["delay_minutes"] = Num(5)
    /\ \E j \in RowsOf(train_df) : train_df.rows[j]["delay_minutes"] = Num(0)

\* the raw table after type conversion, null filling and feature derivation,
\* with every row still there
AllCleanedRows(raw) == DeriveTimeFeatures(CoerceTrain(raw)).rows

\* the positions of the rows that equal no earlier row
FirstOccurrences(rows) ==
    {i \in 1..Len(rows) : \A m \in 1..(i - 1) : rows[m] # rows[i]}

\* the k-th smallest element of a set of numbers
Kth(S, k) == CHOOSE i \in S : Cardinality({m \in S : m < i}) = k - 1

WeekdayOfJan2023(dd) == (dd + 5) % 7

\* C3: day_of_week and hour_of_day are the weekday (0..6) and the hour (0..23)
\* of the row's scheduled_time, null where scheduled_time is null, and absent
\* when the table has no scheduled_time column.
C3_DerivedFields ==
    pc = "train_cleaned" =>
        IF "scheduled_time" \in train_df_raw.cols
        THEN /\ {"day_of_week", "hour_of_day"} \subseteq train_df.cols
             /\ \A j \in RowsOf(train_df) :
                   LET st == train_df.rows[j]["scheduled_time"]
                       dow == train_df.rows[j]["day_of_week"]
                       hod == train_df.rows[j]["hour_of_day"]
                   IN /\ st.tag \in {"ts", "null"}
                      /\ st.tag = "null" => (dow = Null /\ hod = Null)
                      /\ st.tag = "ts" =>
                            /\ dow.tag = "num" /\ dow.n \in 0..6
                            /\ hod.tag = "num" /\ hod.n \in 0..23
                            /\ \A dd \in 15..18, hh \in 0..23, mm \in {0, 30} :
                                  st.n = At(dd, hh, mm) =>
                                      (dow.n = WeekdayOfJan2023(dd) /\ hod.n = hh)
        ELSE {"day_of_week", "hour_of_day"} \cap train_df.cols = {}

\* a cleaned table with a row on Sunday 2023-01-15 08:00, a row on Monday
\* 2023-01-16 10:30 and a row without a scheduled time
C3_Witness ==
    /\ pc = "train_cleaned"
    /\ "scheduled_time" \in train_df.cols
    /\ \E j \in RowsOf(train_df) :
          /\ train_df.rows[j]["scheduled_time"] = Ts(At(15, 8, 0))
          /\ train_df.rows[j]["day_of_week"] = Num(6)
          /\ train_df.rows[j]["hour_of_day"] = Num(8)
    /\ \E j \in RowsOf(train_df) :
          /\ train_df.rows[j]["scheduled_time"] = Ts(At(16, 10, 30))
          /\ train_df.rows[j]["day_of_week"] = Num(0)
    /\ \E j \in RowsOf(train_df) : train_df.rows[j]["scheduled_time"] = Null

\* a cell pd.to_datetime cannot read
UnparsableTime(c) == c.tag = "str" /\ c.txt \notin DatetimeTexts

\* C4: no row is dropped for an unparsable scheduled_time, actual_time or
\* date: the value becomes null and the row stays; only exact duplicates go,
\* so the cleaned table has as many rows as the coerced table has distinct rows.
C4_OnlyDuplicatesDropped ==
    pc = "train_cleaned" =>
        LET coerced == CoerceTrain(train_df_raw).rows
        IN /\ Len(train_df.rows) = Cardinality({coerced[i] : i \in DOMAIN coerced})
           /\ \A i \in RowsOf(train_df_raw) : \E j \in RowsOf(train_df) :
                 /\ train_df.rows[j]["train_id"] = train_df_raw.rows[i]["train_id"]
                 /\ train_df.rows[j]["route"] = train_df_raw.rows[i]["route"]
                 /\ \A c \in train_df_raw.cols \cap {"scheduled_time", "actual_time", "date"} :
                       IF UnparsableTime(train_df_raw.rows[i][c]) \/ IsNull(train_df_raw.rows[i][c])
                       THEN train_df.rows[j][c] = Null
                       ELSE train_df.rows[j][c].tag = "ts"

\* a cleaned table that kept a row whose scheduled_time and date were
\* unparsable, and lost a duplicate
C4_Witness ==
    /\ pc = "train_cleaned"
    /\ {"scheduled_time", "date"} \subseteq train_df.cols
    /\ \E i \in RowsOf(train_df_raw) :
          /\ UnparsableTime(train_df_raw.rows[i]["scheduled_time"])
          /\ UnparsableTime(train_df_raw.rows[i]["date"])
    /\ \E j \in RowsOf(train_df) :
          /\ train_df.rows[j]["scheduled_time"] = Null
          /\ train_df.rows[j]["date"] = Null
    /\ Len(train_df.rows) < Len(train_df_raw.rows)

\* C5: on a table that lacks one of the expected columns the cleaner prints a
\* message for the missing column, skips the steps that use it, applies the
\* others and does not raise.
C5_MissingColumnLogged ==
    pc = "train_cleaned" =>
        /\ raised = "none"
        /\ train_df = DeriveTimeFeatures(DropDuplicates(CoerceTrain(train_df_raw)))
        /\ \A c \in TrainExpected \ train_df_raw.cols :
              \E k \in DOMAIN log : log[k].column = c

---------------------------------------------------------------------------
(* Properties of clean_weather_data, checked under SpecWeather *)

\* the raw weather rows after the type conversion, every row still there
CoercedWeatherRows(raw) == ConvertWeatherTypes(raw, WeatherConversions).df.rows

\* C6: clean_weather_data returns exactly the rows that have no null in any
\* column after the conversion (the columns it does not convert included),
\* in input order: no null cell stays and no row without a null goes.
C6_WeatherNoNulls ==
    pc = "weather_cleaned" =>
        LET coerced == CoercedWeatherRows(weather_df_raw)
            full == {i \in DOMAIN coerced :
                        \A k \in weather_df_raw.cols : coerced[i][k].tag # "null"}
        IN /\ weather_df.cols = weather_df_raw.cols
           /\ \A j \in RowsOf(weather_df) : \A k \in weather_df.cols :
                 weather_df.rows[j][k].tag # "null"
           /\ Len(weather_df.rows) = Cardinality(full)
           /\ \A k \in RowsOf(weather_df) : weather_df.rows[k] = coerced[Kth(full, k)]

\* a cleaned weather table that lost a row for a null weather_condition and a
\* row for an unparsable temperature, and kept a row whose temperature was a text
C6_Witness ==
    /\ pc = "weather_cleaned"
    /\ WeatherColumns \subseteq weather_df_raw.cols
    /\ \E i \in RowsOf(weather_df_raw) :
          /\ weather_df_raw.rows[i]["weather_condition"] = Null
          /\ weather_df_raw.rows[i]["temperature"] = Num(5)
    /\ \E i \in RowsOf(weather_df_raw) : weather_df_raw.rows[i]["temperature"] = Str("n/a")
    /\ Len(weather_df.rows) = 1
    /\ weather_df.rows[1]["temperature"] = Num(0 - 1)

---------------------------------------------------------------------------
(* Properties of merge_data, checked under Spec *)

\* the part of a merged row that came from the delay table
DelayPart(m) == [k \in train_df.cols |-> m[k]]

\* the part of a merged row that came from the weather table, the key left out
WeatherPart(m) == [k \in weather_df.cols \ {"date"} |-> m[k]]

BothHaveKey == "date" \in train_df.cols /\ "date" \in weather_df.cols

\* C7: a left merge of tables that both have the key column has as many rows
\* as the delay table, one merged row per delay row.
C7_LeftMergeRowCount ==
    (pc = "merged" /\ how = "left" /\ BothHaveKey) =>
        Len(merged_df.rows) = Len(train_df.rows)

\* C8: in a left merge a delay row whose key is in no weather row appears with
\* its delay fields unchanged and every weather field null; a delay row whose
\* key matches a weather row carries the fields of that weather row.
C8_LeftMergeFields ==
    (pc = "merged" /\ how = "left" /\ BothHaveKey) =>
        \A i \in RowsOf(train_df) :
            LET l == train_df.rows[i]
                hits == {j \in RowsOf(weather_df) : weather_df.rows[j]["date"] = l["date"]}
                mine == {m \in RowsOf(merged_df) : DelayPart(merged_df.rows[m]) = l}
            IN /\ mine # {}
               /\ hits = {} =>
                     \A m \in mine : \A k \in weather_df.cols \ {"date"} :
                         merged_df.rows[m][k] = Null
               /\ hits # {} =>
                     /\ \A m \in mine : \E j \in hits :
                           WeatherPart(merged_df.rows[m])
                               = [k \in weather_df.cols \ {"date"} |-> weather_df.rows[j][k]]
                     /\ \A j \in hits : \E m \in mine :
                           WeatherPart(merged_df.rows[m])
                               = [k \in weather_df.cols \ {"date"} |-> weather_df.rows[j][k]]

\* a left merge with a delay row that found its weather row and a delay row
\* that found none
C8_Witness ==
    /\ pc = "merged" /\ how = "left" /\ BothHaveKey
    /\ {"temperature", "weather_condition", "delay_minutes"} \subseteq merged_df.cols
    /\ Len(merged_df.rows) = 2
    /\ merged_df.rows[1]["temperature"] = Num(2)
    /\ merged_df.rows[1]["delay_minutes"] = Num(5)
    /\ merged_df.rows[2]["temperature"] = Null
    /\ merged_df.rows[2]["weather_condition"] = Null
    /\ merged_df.rows[2]["delay_minutes"] = Num(15)

MergeKeyError == "Error merging data: Missing key in one of the DataFrames."

\* C9: when the key column is absent from the delay table or from the weather
\* table, merge_data prints the error and returns an empty table without
\* raising; it changes neither input table.
C9_MergeMissingKey ==
    [][pc' = "merged" =>
          /\ train_df' = train_df
          /\ weather_df' = weather_df
          /\ ~ BothHaveKey =>
                /\ merged_df'.cols = {} /\ merged_df'.rows = <<>>
                /\ raised' = "none"
                /\ Len(log') = Len(log) + 1
                /\ log'[Len(log')].msg = MergeKeyError]_vars

\* a merge of a delay table with rows and a weather table without the key
\* that returned the empty table
C9_Witness ==
    /\ pc = "merged"
    /\ "date" \in train_df.cols /\ Len(train_df.rows) = 2
    /\ "date" \notin weather_df.cols /\ Len(weather_df.rows) = 2
    /\ merged_df.cols = {} /\ merged_df.rows = <<>>
    /\ log # <<>> /\ log[Len(log)].msg = MergeKeyError

---------------------------------------------------------------------------
(* Properties of the analysis functions, checked under Spec *)

\* the sentinel of an analysis function: an empty table for
\* aggregate_by_time, None for the others
IsSentinel(fn, ret) ==
    IF fn = "aggregate_by_time"
    THEN ret.kind = "frame" /\ ret.cols = {} /\ ret.rows = <<>>
    ELSE ret.kind = "None"

\* C10: an analysis function called on a table that lacks a column named in
\* the call returns its sentinel (None; an empty table for aggregate_by_time),
\* does not raise and does not modify the table.
C10_MissingColumnSentinel ==
    [][pc' = "called" =>
          /\ merged_df' = merged_df
          /\ raised' = "none"
          /\ (\E a \in DOMAIN result'.args : result'.args[a] \notin merged_df.cols) =>
                IsSentinel(result'.fn, result'.ret)]_vars

\* aggregate_by_time called on a merged table with rows and a scheduled_time
\* column but no delay_minutes column, returning the empty table
C10_Witness ==
    /\ pc = "called"
    /\ result.fn = "aggregate_by_time"
    /\ merged_df.rows # <<>>
    /\ "scheduled_time" \in merged_df.cols
    /\ "delay_minutes" \notin merged_df.cols
    /\ IsSentinel(result.fn, result.ret)

---------------------------------------------------------------------------
(* Properties of the analysis functions, checked under SpecAnalysis *)

\* column c of df holds a text or a timestamp: it is not a numeric column
HoldsNonNumber(df, c) ==
    c \in df.cols /\ \E i \in RowsOf(df) : df.rows[i][c].tag \in {"str", "ts"}

\* column c of df holds a text or a number: it is not a timestamp column
HoldsNonTimestamp(df, c) ==
    c \in df.cols /\ \E i \in RowsOf(df) : df.rows[i][c].tag \in {"str", "num"}

\* the call names a column of the wrong type for fn: a value column that is
\* not numeric or, for aggregate_by_time, a time column that is not a timestamp
WrongTyped(df, fn, args) ==
    CASE fn = "get_descriptive_statistics" -> HoldsNonNumber(df, args[1])
      [] fn = "perform_t_test" -> HoldsNonNumber(df, args[2])
      [] fn = "calculate_correlation" ->
            HoldsNonNumber(df, args[1]) \/ HoldsNonNumber(df, args[2])
      [] fn = "aggregate_by_time" ->
            HoldsNonTimestamp(df, args[1]) \/ HoldsNonNumber(df, args[2])

\* C11: an analysis function called with a value column that is not numeric
\* returns None, aggregate_by_time called with a time column that is not a
\* timestamp column or a value column that is not numeric returns the empty
\* table, and none of the calls raises.
C11_WrongTypeSentinel ==
    [][pc' = "called" =>
          /\ raised' = "none"
          /\ WrongTyped(merged_df, result'.fn, result'.args) =>
                IsSentinel(result'.fn, result'.ret)]_vars

\* calculate_correlation called on a merged table with the text column
\* weather_condition, returning None
C11_Witness ==
    /\ pc = "called"
    /\ result.fn = "calculate_correlation"
    /\ result.args = <<"delay_minutes", "weather_condition">>
    /\ HoldsNonNumber(merged_df, "weather_condition")
    /\ ~ HoldsNonNumber(merged_df, "delay_minutes")
    /\ result.ret.kind = "None"

\* the two group values of the calls that group on group_col
GroupValues(group_col) == CHOOSE g \in GroupArgs : g[1] = group_col

\* the rows of df that belong to the group of value v
GroupRows(df, group_col, v) ==
    {i \in RowsOf(df) : df.rows[i][group_col] = v}

\* the observations of the group of value v: its rows with a value in value_col
Observations(df, group_col, v, value_col) ==
    {i \in GroupRows(df, group_col, v) : df.rows[i][value_col].tag # "null"}

\* a group of the last perform_t_test call has fewer than 2 observations
FewObservations ==
    LET group_col == result.args[1]
        value_col == result.args[2]
        g == GroupValues(group_col)
    IN \/ Cardinality(Observations(merged_df, group_col, g[2], value_col)) < 2
       \/ Cardinality(Observations(merged_df, group_col, g[3], value_col)) < 2

NamedColumnsExist == \A a \in DOMAIN result.args : result.args[a] \in merged_df.cols

\* C12: perform_t_test returns None and does not raise when one of the two
\* groups has fewer than 2 observations, an observation being a non-null
\* value of value_col in a row whose group_col equals the group's value.
C12_TTestFewObservations ==
    (pc = "called" /\ result.fn = "perform_t_test" /\ NamedColumnsExist /\ FewObservations) =>
        (result.ret.kind = "None" /\ raised = "none")

\* perform_t_test on temperature grouped on is_snowy: both groups have two
\* rows or more, the rows of the non-snowy group have no temperature, and the
\* call returned None
C12_Witness ==
    /\ pc = "called"
    /\ result.fn = "perform_t_test"
    /\ result.args = <<"is_snowy", "temperature">>
    /\ "is_snowy" \in merged_df.cols
    /\ Cardinality(GroupRows(merged_df, "is_snowy", Num(1))) >= 2
    /\ Cardinality(GroupRows(merged_df, "is_snowy", Num(0))) >= 2
    /\ Cardinality(Observations(merged_df, "is_snowy", Num(1), "temperature")) >= 2
    /\ Cardinality(Observations(merged_df, "is_snowy", Num(0), "temperature")) < 2
    /\ result.ret.kind = "None"
    /\ raised = "none"

\* the numbers of column c in the rows of S, in row order
RECURSIVE NumbersOf(_, _, _, _)
NumbersOf(df, c, S, i) ==
    IF i > Len(df.rows) THEN <<>>
    ELSE (IF i \in S THEN <<df.rows[i][c].n>> ELSE <<>>) \o NumbersOf(df, c, S, i + 1)

\* the last call is perform_t_test on the table of the self-test
\* (statistical_model.py:166), the only table of SpecAnalysis that was not merged
OnSelfTestTable ==
    /\ train_df_raw.rows = <<>>
    /\ result.args = <<"is_snowy", "delay_minutes">>

\* C13: perform_t_test returns a (t_statistic, p_value) pair, not None, computed
\* from the observations of the two groups, when both columns exist, value_col
\* is numeric and each group has 2 observations or more; on the six-row sample
\* grouped on is_snowy the pair is computed from the delays 10, 5 of the two
\* snowy rows and 5, 0, 0, 15 of the four other rows.
C13_TTestDefined ==
    (/\ pc = "called"
     /\ result.fn = "perform_t_test"
     /\ NamedColumnsExist
     /\ ~ HoldsNonNumber(merged_df, result.args[2])
     /\ ~ FewObservations) =>
        LET group_col == result.args[1]
            value_col == result.args[2]
            g == GroupValues(group_col)
        IN /\ raised = "none"
           /\ result.ret.kind = "ttest"
           /\ result.ret.group1 =
                 NumbersOf(merged_df, value_col,
                           Observations(merged_df, group_col, g[2], value_col), 1)
           /\ result.ret.group2 =
                 NumbersOf(merged_df, value_col,
                           Observations(merged_df, group_col, g[3], value_col), 1)
           /\ OnSelfTestTable =>
                 (result.ret.group1 = <<10, 5>> /\ result.ret.group2 = <<5, 0, 0, 15>>)

\* perform_t_test on the six-row sample grouped on is_snowy returned a pair
C13_Witness ==
    /\ pc = "called"
    /\ result.fn = "perform_t_test"
    /\ OnSelfTestTable
    /\ "is_snowy" \in merged_df.cols
    /\ Len(merged_df.rows) = 6
    /\ Cardinality(Observations(merged_df, "is_snowy", Num(1), "delay_minutes")) = 2
    /\ Cardinality(Observations(merged_df, "is_snowy", Num(0), "delay_minutes")) = 4
    /\ result.ret.kind = "ttest"

\* the calendar day (days since the epoch) of a timestamp cell
DayOf(c) == c.n \div MinutesPerDay

\* the calendar dates present in the time column, and the rows of a date
DatesPresent(df, time_col) ==
    {DayOf(df.rows[i][time_col]) : i \in {j \in RowsOf(df) : df.rows[j][time_col].tag = "ts"}}

RowsOn(df, time_col, d) ==
    {i \in RowsOf(df) : df.rows[i][time_col].tag = "ts" /\ DayOf(df.rows[i][time_col]) = d}

\* the last call is the daily mean of main.py:140 on a table whose
\* scheduled_time is a timestamp column and whose delay_minutes is numeric
DailyMeanCall ==
    /\ pc = "called"
    /\ result.fn = "aggregate_by_time"
    /\ result.args = <<"scheduled_time", "delay_minutes">>
    /\ NamedColumnsExist
    /\ ~ HoldsNonTimestamp(merged_df, "scheduled_time")
    /\ ~ HoldsNonNumber(merged_df, "delay_minutes")
    /\ DatesPresent(merged_df, "scheduled_time") # {}

\* row k of the returned table is the row of date d: it holds the sum and the
\* count of the delays of the input rows on d, so its mean is their mean
IsRowOf(k, d) ==
    LET on == RowsOn(merged_df, "scheduled_time", d)
    IN /\ result.ret.index[k] = d * MinutesPerDay
       /\ result.ret.rows[k].count = Cardinality(on)
       /\ result.ret.rows[k].sum = SumOf(NumbersOf(merged_df, "delay_minutes", on, 1))

\* C14 as stated: the daily mean has exactly one row per calendar date present
\* in the time column, each holding the mean of the delays of that date.
C14_OneRowPerDatePresent ==
    DailyMeanCall =>
        LET dates == DatesPresent(merged_df, "scheduled_time")
        IN /\ result.ret.kind = "frame"
           /\ Len(result.ret.rows) = Cardinality(dates)
           /\ \A d \in dates : \E k \in DOMAIN result.ret.rows : IsRowOf(k, d)

\* C14, amended: the daily mean has exactly one row per calendar date from
\* the earliest to the latest date present in the time column, in date order;
\* the row of a date holds the mean of the delays of the input rows on that
\* date, and the row of a date in between without input rows holds no value.
C14_DailyMeanRows ==
    DailyMeanCall =>
        LET dates == DatesPresent(merged_df, "scheduled_time")
            first == SetMin(dates)
            last == SetMax(dates)
        IN /\ result.ret.kind = "frame"
           /\ raised = "none"
           /\ Len(result.ret.rows) = last - first + 1
           /\ Len(result.ret.index) = last - first + 1
           /\ \A k \in 1..(last - first + 1) : IsRowOf(k, first + k - 1)

\* the daily mean of a table with rows on two dates two days apart: three
\* rows, the middle one without a value
C14_Witness ==
    /\ DailyMeanCall
    /\ Cardinality(DatesPresent(merged_df, "scheduled_time")) = 2
    /\ Len(result.ret.rows) = 3
    /\ result.ret.rows[1].count > 0
    /\ result.ret.rows[2].count = 0
    /\ result.ret.rows[3].count > 0

---------------------------------------------------------------------------
(* Properties of the spatial processor, checked under SpecGeo *)

\* the rows of the station table that have both coordinates
WithCoordinates(df) ==
    {i \in RowsOf(df) : df.rows[i]["latitude"].tag # "null"
                        /\ df.rows[i]["longitude"].tag # "null"}

Printed(before, after) == {after[k].msg : k \in (Len(before) + 1)..Len(after)}

\* C16: spatial_join_data on a point set whose CRS differs from the polygon
\* set's prints a warning and joins the points reprojected to the polygon
\* set's CRS; the caller's point set keeps its CRS and coordinates and the
\* polygon set is not reprojected.  With equal CRS there is no warning and
\* the points are joined as they are.
C16_JoinReprojectsLocalCopy ==
    [][pc' = "joined" =>
          LET differ == gdf_stations.crs # gdf_polygons.crs
              warned == "Warning: CRS mismatch. Reprojecting points_gdf to" \in Printed(log, log')
              ret == result'.ret
              moved == [i \in DOMAIN gdf_stations.geometry |->
                          Transform(gdf_stations.geometry[i], gdf_stations.crs,
                                    gdf_polygons.crs)]
          IN /\ gdf_stations' = gdf_stations
             /\ gdf_polygons' = gdf_polygons
             /\ raised' = "none"
             /\ warned <=> differ
             /\ ret.kind = "joined" =>
                   /\ ret.crs = gdf_polygons.crs
                   /\ ret.geometry = moved
                   /\ differ => (\A i \in DOMAIN moved : moved[i] # gdf_stations.geometry[i])
                   /\ ret.pairs = {<<i, j>> \in (DOMAIN moved) \X (DOMAIN gdf_polygons.geometry) :
                                      Within(moved[i], gdf_polygons.geometry[j])}]_vars

\* stations in EPSG:4326 joined to districts in EPSG:3857: the joined points
\* are in EPSG:3857 and lie in a district, the caller's points are as they were
C16_Witness ==
    /\ pc = "joined"
    /\ gdf_stations.crs = "EPSG:4326"
    /\ gdf_polygons.crs = "EPSG:3857"
    /\ result.ret.kind = "joined"
    /\ result.ret.crs = "EPSG:3857"
    /\ result.ret.pairs # {}
    /\ \E k \in DOMAIN log : log[k].msg = "Warning: CRS mismatch. Reprojecting points_gdf to"
    /\ \A i \in DOMAIN gdf_stations.geometry :
          gdf_stations.geometry[i].x = gdf_stations.rows[i]["longitude"].n

\* the file of path p was written
Exists(p) == \E f \in files : f.path = p

\* C17: save_gdf_to_shapefile and create_leaflet_geojson do not raise; each
\* returns True when its file was written and False when the reprojection or
\* the write failed.
C17_ExportsReturnBool ==
    (pc \in {"saved", "exported"}) =>
        /\ raised = "none"
        /\ result.ret.kind = "bool"
        /\ result.ret.value <=> Exists(result.args[1])

\* the shapefile was written and create_leaflet_geojson failed: it returned
\* False and there is no GeoJSON file
C17_Witness ==
    /\ pc = "exported"
    /\ result.fn = "create_leaflet_geojson"
    /\ result.ret = False
    /\ Exists(ShapefilePath)
    /\ ~ Exists(GeoJsonPath)
    /\ raised = "none"

\* the geometries of the station point set, expressed in EPSG:4326
InEpsg4326(gdf) ==
    [i \in DOMAIN gdf.geometry |-> Transform(gdf.geometry[i], gdf.crs, "EPSG:4326")]

---------------------------------------------------------------------------
(* Properties of run_pipeline, checked under SpecPipeline *)

\* the phases whose banner was printed, in the order of the banners
RECURSIVE PhasesEntered(_)
PhasesEntered(l) ==
    IF l = <<>> THEN <<>>
    ELSE (IF \E k \in 1..5 : Head(l).msg = Banner(k)
          THEN <<CHOOSE k \in 1..5 : Head(l).msg = Banner(k)>>
          ELSE <<>>) \o PhasesEntered(Tail(l))

\* phase k has ended: its last statement was executed
PhaseEnded(k) ==
    CASE k = 0 -> pc = "start"
      [] k = 1 -> pc = "acquire" /\ current_date = DaysBack + 1
      [] k = 2 -> pc = "analysis" /\ Exists("data/processed/final_merged_data.csv")
      [] k = 3 -> pc = "correlated"
      [] OTHER -> FALSE

\* C19: the phases of a run are entered in the order Acquire, Clean/Merge,
\* Analyze, Visualize, Export-Geo: the phases entered so far are the first
\* ones of that order, each entered once, and a step that enters a phase
\* starts from the end of the phase before.
C19_PhaseOrder ==
    [][LET before == PhasesEntered(log)
           after == PhasesEntered(log')
       IN /\ after = [k \in 1..Len(after) |-> k]
          /\ Len(after) \in {Len(before), Len(before) + 1}
          /\ Len(after) > Len(before) => PhaseEnded(Len(before))]_vars

\* a run that is in Visualize after Acquire, Clean/Merge and Analyze, with
\* the four dates of the acquisition loop visited
C19_Witness ==
    /\ PhasesEntered(log) = <<1, 2, 3, 4>>
    /\ current_date = DaysBack + 1
    /\ pc = "series_plotted"

\* the run is over: run_pipeline returned or an exception left it
RunOver == pc \in {"done", "finished", "crashed"}

\* C20 as stated: a run whose merged table is not empty ends after the
\* 'Pipeline Finished' message, with no exception leaving run_pipeline.
C20_RunReachesEnd ==
    (RunOver /\ merged_df.rows # <<>>) =>
        /\ raised = "none"
        /\ \E k \in DOMAIN log : log[k].msg = "--- Pipeline Finished ---"

\* ---------------------------------------------------------------------
\* Properties of the stop on an empty merged table, checked under Spec
\* ---------------------------------------------------------------------

\* DataFrame.empty: no rows or no columns
IsEmptyFrame(df) == df.rows = <<>> \/ df.cols = {}

\* merge_data has returned in this run
MergeReturned == pc \in {"merged", "analysis", "called", "done"}

MergedCsvPath == "data/processed/final_merged_data.csv"

\* C21: when merge_data yields an empty merged table the run returns at the
\* end of Clean/Merge: it is at the test of the table or over, the merged
\* CSV is not written, no analysis call has returned, is_snowy is not
\* added, no chart is drawn and no station geo table is made.
C21_HardStop ==
    (MergeReturned /\ IsEmptyFrame(merged_df)) =>
        /\ pc \in {"merged", "done"}
        /\ ~ \E f \in files : f.path = MergedCsvPath
        /\ result = NoResult
        /\ "is_snowy" \notin merged_df.cols
        /\ charts = <<>>
        /\ gdf_stations = None
        /\ files = {}

\* a run that stopped on an empty merged table, the stop being the last
\* thing it printed
C21_Witness ==
    /\ pc = "done"
    /\ IsEmptyFrame(merged_df)
    /\ log # <<>>
    /\ log[Len(log)].msg = "Error: Merged DataFrame is empty. Exiting pipeline."

\* ---------------------------------------------------------------------
\* Properties of the acquisition phase, checked under SpecPipeline
\* ---------------------------------------------------------------------

\* Clean/Merge has been entered: the raw tables were handed to the cleaners
TablesHanded == \E k \in DOMAIN log : log[k].msg = Banner(2)

\* the printed lines of a run with the given message
Lines(m) == {k \in DOMAIN log : log[k].msg = m}

\* the merged table the fixed sample tables give
SampleMerged ==
    merge_data(clean_train_delays(DataFrame(SampleTrainRows, TrainColumns)).df,
               clean_weather_data(DataFrame(SampleWeatherRows, WeatherColumns)).df,
               "date", "left").df

\* C22: the acquisition phase is inert: the weather service is called only
\* when the API key differs from the placeholder (and then once per date
\* printed), and the tables handed to Clean/Merge are the fixed sample
\* tables, so that the merged table is the same whatever the acquisition
\* returned and whether it failed.
C22_AcquisitionInert ==
    /\ api_key = Placeholder => requests = <<>>
    /\ api_key # Placeholder => Len(requests) = Cardinality(Lines("Scraping for date:"))
    /\ TablesHanded =>
          /\ train_df_raw = DataFrame(SampleTrainRows, TrainColumns)
          /\ weather_df_raw = DataFrame(SampleWeatherRows, WeatherColumns)
    /\ pc = "merged" => merged_df = SampleMerged

\* a run with a configured key in which a request failed and another was
\* answered, at the merged table
C22_Witness ==
    /\ pc = "merged"
    /\ api_key # Placeholder
    /\ Lines("Failed to fetch weather data for") # {}
    /\ Lines("Fetched weather data for") # {}
    /\ merged_df.rows # <<>>

\* ---------------------------------------------------------------------
\* Properties of the ingestion functions, checked under SpecIngest
\* ---------------------------------------------------------------------

\* the JSON texts of the grammar, nested at most d deep: a scalar, an empty
\* array or object, an array of one value, an object of one member
RECURSIVE JsonTexts(_)
JsonTexts(d) ==
    LET flat == {<<"null">>, <<"5">>, <<"\"t\"">>, <<"[", "]">>, <<"{", "}">>}
    IN IF d = 0 THEN flat
       ELSE LET inner == JsonTexts(d - 1)
            IN inner \cup {<<"[">> \o v \o <<"]">> : v \in inner}
                     \cup {<<"{", "\"t\"", ":">> \o v \o <<"}">> : v \in inner}

\* the answer makes the call fail: no response, an error status, or a body
\* that is not valid JSON
FetchFails(o) ==
    \/ o.raises # "none"
    \/ o.status_code >= 400
    \/ o.text \notin JsonTexts(MaxTokens)

FetchReturned == pc = "returned" /\ result.fn = "fetch_weather_data"

\* C23: a call of fetch_weather_data issues exactly one GET and no
\* exception leaves it: on a transport error, an HTTP error status or a body
\* that is not valid JSON it prints one line and returns None, and on
\* success it prints nothing and returns the parsed JSON.
C23_FetchOnce ==
    FetchReturned =>
        /\ requests = <<base_url>>
        /\ raised = "none"
        /\ IF FetchFails(result.args)
           THEN result.ret.kind = "None" /\ Len(log) = 1
           ELSE result.ret = json(result.args.text).value /\ log = <<>>

\* a call answered with status 200 and an object of one member, which it
\* returns as a dict; the same body under status 500 is the failing case
C23_Witness ==
    /\ FetchReturned
    /\ result.args.status_code = 200
    /\ result.args.text = ObjectBody
    /\ result.ret = PyDict(<<<<"t", PyInt(5)>>>>)

ScrapeReturned == pc = "returned" /\ result.fn = "scrape_idos_delays"

\* the answer is a page (the GET and raise_for_status went through)
PageArrived(o) == o.raises = "none" /\ o.status_code < 400

\* the page has the table with its thead and its tbody
TableComplete(o) ==
    /\ o.page.table.kind # "None"
    /\ o.page.table.thead.kind # "None"
    /\ o.page.table.tbody.kind # "None"

\* an exception is raised inside the try block: by the GET, by the status,
\* by a missing thead or tbody, or by a body row
ScrapeExcepts(o) ==
    \/ ~ PageArrived(o)
    \/ /\ o.page.table.kind # "None"
       /\ \/ ~ TableComplete(o)
          \/ o.fails_at \in 1..Len(o.page.table.tbody.tr)

\* the body rows with as many cells as the header has, by position
MatchingRows(o) ==
    {i \in DOMAIN o.page.table.tbody.tr :
        Len(o.page.table.tbody.tr[i]) = Len(o.page.table.thead.th)}

\* C24: no exception leaves scrape_idos_delays.  Without a table of class
\* 'delays-table' it prints the notice and returns an empty list; with the
\* table it returns, in page order, one record per body row whose cell count
\* equals the header count, keyed by the header texts; on an exception of
\* the request or of the parsing it returns an empty list, whatever rows it
\* had collected.
C24_ScrapeNeverRaises ==
    ScrapeReturned =>
        LET o == result.args
            ret == result.ret
        IN /\ raised = "none"
           /\ (PageArrived(o) /\ o.page.table.kind = "None") =>
                 /\ ret = <<>>
                 /\ Len(log) = 1
                 /\ log[1].msg = "No table with class 'delays-table' found. Adjust selectors as needed."
           /\ (PageArrived(o) /\ TableComplete(o) /\ ~ ScrapeExcepts(o)) =>
                 LET th == o.page.table.thead.th
                     rows == o.page.table.tbody.tr
                 IN /\ Len(ret) = Cardinality(MatchingRows(o))
                    /\ log = <<>>
                    /\ \A k \in DOMAIN ret :
                          LET cells == rows[Kth(MatchingRows(o), k)]
                          IN /\ DOMAIN ret[k] = {Strip(th[i]) : i \in DOMAIN th}
                             /\ \A h \in DOMAIN ret[k] :
                                   \E i \in DOMAIN th :
                                      Strip(th[i]) = h /\ ret[k][h] = Strip(cells[i])
           /\ ScrapeExcepts(o) => ret = <<>> /\ Len(log) = 1

\* a page whose table has two headers and two body rows, the first of two
\* cells and the second of one: the call returns the record of the first
C24_Witness ==
    /\ ScrapeReturned
    /\ PageArrived(result.args) /\ TableComplete(result.args)
    /\ result.args.fails_at = 0
    /\ result.args.page.table.thead.th = <<"train", " delay ">>
    /\ Len(result.args.page.table.tbody.tr) = 2
    /\ MatchingRows(result.args) = {1}
    /\ Len(result.ret) = 1
    /\ result.ret[1]["delay"] = "5"

\* ---------------------------------------------------------------------
\* Properties of the dashboard, checked under SpecDashboard
\* ---------------------------------------------------------------------

\* the header each view starts with
ViewHeader(p) ==
    CASE p = "Data Overview" -> "Processed and Merged Data Overview"
      [] p = "Analysis & Visualizations" -> "Statistical Analysis & Visualizations"
      [] p = "GIS Outputs" -> "GIS Outputs"
      [] OTHER -> "Configuration"

DataPages == Pages4 \ {"Configuration"}

\* the render is over: main() returned or an exception left it
RenderOver == pc \in {"rendered", "crashed"}

\* C25: in a render of main(), the Configuration page loads, cleans and
\* merges nothing; a data page runs load_and_process_data once and then
\* draws the selected view and no other; when the merged table is empty the
\* error banner is drawn and none of the three views.
C25_PageDispatch ==
    /\ page = "Configuration" =>
          /\ Lines("Data Acquisition & Processing (Dummy Data)") = {}
          /\ train_df_raw = EmptyFrame /\ weather_df_raw = EmptyFrame
          /\ train_df = EmptyFrame /\ weather_df = EmptyFrame
          /\ merged_df = EmptyFrame
          /\ \A p \in DataPages : Lines(ViewHeader(p)) = {}
    /\ (page \in DataPages /\ RenderOver) =>
          /\ Cardinality(Lines("Data Acquisition & Processing (Dummy Data)")) = 1
          /\ Cardinality(Lines("Data loaded, cleaned, and merged!")) = 1
          /\ \A p \in DataPages \ {page} : Lines(ViewHeader(p)) = {}
          /\ IF HasData
             THEN /\ Cardinality(Lines(ViewHeader(page))) = 1
                  /\ Lines("No data available for analysis. Please check data loading steps.") = {}
             ELSE /\ Lines(ViewHeader(page)) = {}
                  /\ log[Len(log)].msg = "No data available for analysis. Please check data loading steps."
                  /\ charts = <<>> /\ gdf_stations = None /\ result = NoResult

\* a render of the GIS page on the dummy tables, which drew the map of the
\* four stations
C25_Witness ==
    /\ pc = "rendered" /\ page = "GIS Outputs"
    /\ Len(merged_df.rows) = Len(SampleTrainRows)
    /\ gdf_stations.kind = "gdf"
    /\ Len(df_stations.rows) = 4

\* ---------------------------------------------------------------------
\* Properties of the acquisition loop, checked under SpecPipelineFair
\* ---------------------------------------------------------------------

\* the dates the loop has printed, in order, in days after start_date
DatesVisited ==
    LET at == Lines("Scraping for date:")
    IN [k \in 1..Cardinality(at) |-> log[Kth(at, k)].column]

\* the first n dates from start_date on, as printed
FirstDates(n) == [k \in 1..n |-> ToString(k - 1)]

C28_NoTimeSeriesChart ==
    (pc = "series_plotted" /\ result.ret.rows # <<>>) =>
        /\ result.fn = "aggregate_by_time"
        /\ result.ret.cols = {"delay_minutes"}
        /\ Len(result.ret.index) = Len(result.ret.rows)
        /\ log[Len(log)] = [msg |-> "Error: Required columns not found. Cannot plot time series.",
                            column |-> "scheduled_time"]
        /\ \A k \in DOMAIN charts : charts[k] # "Daily Average Train Delay Minutes"

\* the daily aggregate of a table with delays on three days or more, handed
\* to plot_time_series
C28_Witness ==
    /\ pc = "series_plotted"
    /\ Len(result.ret.rows) >= 3
    /\ result.ret.rows[1].count > 0
    /\ log[Len(log)].msg = "Error: Required columns not found. Cannot plot time series."

\* ---------------------------------------------------------------------
\* Properties of the cleaners called twice, checked under SpecReclean
\* ---------------------------------------------------------------------

OnRoute(df, route) == {i \in 1..Len(df.rows) : df.rows[i]["route"] = Str(route)}

\* C30 as stated: for every merged table run_pipeline and the dashboard give
\* each of the four stations the same avg_delay: the mean delay_minutes of
\* the rows of its route (Ostrava-Frydlant for Frydlant n.O.,
\* Ostrava-Frenstat for the other three), 0 when the route has no row.
C30_SameStationDelays ==
    pc \in {"orchestrator_assigned", "dashboard_assigned", "crashed"} =>
        /\ raised = "none"
        /\ \A k \in 1..4 :
              LET route == IF k = 2 THEN FrydlantRoute ELSE FrenstatRoute
              IN df_stations.rows[k]["avg_delay"] =
                    IF OnRoute(merged_df, route) = {} THEN Num(0)
                    ELSE MeanDelay(merged_df, OnRoute(merged_df, route))

====
